---- MODULE Spec2Model ----
(***************************************************************************)
(* Model of the load-test CI pipeline scripts: the persisted pipeline      *)
(* state (utils.py), the load generator (load_test.py), the resource       *)
(* monitor (monitor_resources.py) and the readiness gate                   *)
(* (check_health.py).                                                      *)
(***************************************************************************)
EXTENDS Integers, Sequences, FiniteSets, TLC

VARIABLES
    \* ---- utils.py: the persisted state file and the last call on it
    stateFile,      \* contents of STATE_FILE
    stBase,         \* ghost: the map persisted before the first update_state
    stHist,         \* ghost: the updates of the completed update_state calls
    stCalls,        \* number of calls made
    stResult,
    stSaved,        \* ghost: the map passed to the last save_state call       \* what the last call returned or raised
    \* ---- two writers running update_state concurrently
    cpc,            \* position of each writer inside update_state
    clocal,         \* each writer's in-memory copy of the state
    \* ---- load_test.py: one invocation of main
    lpc,            \* position in main
    totalRequests,  \* args.requests
    warmupAttempts, \* args.warmup_attempts
    wIdx,           \* index in HOSTS of the host being warmed up
    wAttempt,       \* warm-up attempts made on that host
    wReqs,          \* ghost: warm-up requests issued per host
    wGot200,        \* ghost: whether a warm-up request of the host returned 200
    iter,           \* iterations of the steady-state loop started
    cur,            \* host chosen by the running iteration
    lastResp,       \* ghost: outcome and latency of the last completed request
    stats,          \* run_load's stats dict
    issued,         \* ghost: steady-state requests issued
    results,        \* what run_load returned
    artifacts,      \* report files written by this invocation
    lexit,          \* exit status of the process
    \* ---- monitor_resources.py: one invocation of main
    mpc,            \* position in main
    menv,           \* the command line and the machine: kubectl on PATH, ...
    mstate,         \* the state main loaded
    proc,           \* the kubectl port-forward process
    pfHandle,       \* whether main's port_forward_proc holds the process
    pfWait,         \* seconds start_port_forward has waited
    spawned,        \* ghost: port-forward processes spawned
    signals,        \* ghost: what the cleanup sent to the process
    mNow,           \* seconds since monitor_resources started
    mqueries,       \* ghost: the queries of the latest collect_metrics, in order
    probeOk,        \* ghost: whether a reachability probe has answered healthy
    samples,        \* the samples collected
    mstats,         \* compute_statistics(samples)
    martifacts,     \* report files written by this invocation
    mret,           \* the value main is returning through its finally clause
    mexit,          \* exit status of the process
    \* ---- check_health.py: one invocation of main
    gpc,            \* the check main is at
    genv,           \* the command line and the machine
    gsub,           \* index of the deployment or service being checked
    gattempt,       \* probes of the Prometheus API that failed
    gstarted,       \* ghost: the checks started, in order
    gfailed,        \* ghost: the fatal check whose query failed
    greport,        \* the exception main logged
    gwebhook,       \* ghost: how the webhook waits ended
    glog,           \* lines logged
    gproc,          \* the gate's kubectl port-forward process
    gsignals,       \* ghost: what the cleanup sent to the process
    gexit,          \* exit status of the process
    gqueries,       \* ghost: the kubectl get queries of the two query checks
    \* ---- load_test.py: one call of percentile or of compute_metrics
    ppc,            \* before or after the call
    pin,            \* the latencies passed
    ppct,           \* pct, in hundredths
    pout,           \* the value percentile returned
    pmet,           \* the dict compute_metrics returned
    \* ---- utils.py: one call of run_cmd
    rpc,            \* before or after the call
    rin,            \* its arguments and what the command does
    rout,           \* the CommandResult returned or the exception raised
    \* ---- post_comment.py: one call of discover_pr_context
    dpc,            \* before or after the call
    din,            \* the environment and the event file
    dout            \* the pair returned or the exception raised

stateVars == <<stateFile, stBase, stHist, stCalls, stResult, stSaved>>
concVars == <<cpc, clocal>>
loadVars == <<lpc, totalRequests, warmupAttempts, wIdx, wAttempt, wReqs, wGot200,
              iter, cur, lastResp, stats, issued, results, artifacts, lexit>>
monVars == <<mpc, menv, mstate, proc, pfHandle, pfWait, spawned, signals, mNow,
             mqueries, probeOk, samples, mstats, martifacts, mret, mexit>>
gateVars == <<gpc, genv, gsub, gattempt, gstarted, gfailed, greport, gwebhook,
              glog, gproc, gsignals, gexit, gqueries>>
pctVars == <<ppc, pin, ppct, pout, pmet>>
runCmdVars == <<rpc, rin, rout>>
discoverVars == <<dpc, din, dout>>
othersState == <<concVars, loadVars, monVars, gateVars, pctVars, runCmdVars, discoverVars>>
othersConc == <<loadVars, monVars, gateVars, pctVars, runCmdVars, discoverVars>>
othersLoad == <<concVars, monVars, gateVars, pctVars, runCmdVars, discoverVars>>
othersMon == <<concVars, loadVars, gateVars, pctVars, runCmdVars, discoverVars>>
othersGate == <<concVars, loadVars, monVars, pctVars, runCmdVars, discoverVars>>
othersPct == <<stateVars, concVars, loadVars, monVars, gateVars, runCmdVars,
               discoverVars>>
othersRunCmd == <<stateVars, concVars, loadVars, monVars, gateVars, pctVars,
                  discoverVars>>
othersDiscover == <<stateVars, concVars, loadVars, monVars, gateVars, pctVars,
                    runCmdVars>>
vars == <<stateFile, stBase, stHist, stCalls, stResult, stSaved, cpc, clocal,
          lpc, totalRequests, warmupAttempts, wIdx, wAttempt, wReqs, wGot200,
          iter, cur, lastResp, stats, issued, results, artifacts, lexit,
          mpc, menv, mstate, proc, pfHandle, pfWait, spawned, signals, mNow,
          mqueries, probeOk, samples, mstats, martifacts, mret, mexit,
          gpc, genv, gsub, gattempt, gstarted, gfailed, greport, gwebhook,
          glog, gproc, gsignals, gexit, gqueries, ppc, pin, ppct, pout, pmet,
          rpc, rin, rout, dpc, din, dout>>

(***************************************************************************)
(* utils.py: PipelineState                                                 *)
(***************************************************************************)

\* The keys of the state map, in the order json.dumps(sort_keys=True) writes them.
KeyOrder == <<"a", "b", "kubeconfig", "load_test", "resource_metrics">>
Keys == {KeyOrder[i] : i \in DOMAIN KeyOrder}
Values == {1, 2}

\* Bound on the number of calls made on the state file in one behaviour.
MaxCalls == 3

\* A Python dict with string keys: a function from a subset of Keys.
EmptyDict == [k \in {} |-> 1]
NotSaved == [set |-> FALSE, map |-> EmptyDict]
DictsOver(K) == UNION {[D -> Values] : D \in SUBSET K}

\* The file: absent, or holding a text. A text is the JSON of an object
\* (its key/value pairs in file order), or the empty text an open-for-write
\* leaves, or bytes that are not JSON, or the JSON of a value that is not an
\* object (an array).
AbsentFile == [kind |-> "absent", pairs |-> <<>>]
EmptyText == [kind |-> "empty", pairs |-> <<>>]
GarbageText == [kind |-> "garbage", pairs |-> <<>>]
ArrayText == [kind |-> "array", pairs |-> <<>>]
ObjectText(pairs) == [kind |-> "object", pairs |-> pairs]

\* json.dumps(state, indent=2, sort_keys=True)
RECURSIVE DumpsFrom(_, _)
DumpsFrom(state, i) ==
    IF i > Len(KeyOrder) THEN <<>>
    ELSE (IF KeyOrder[i] \in DOMAIN state
          THEN << <<KeyOrder[i], state[KeyOrder[i]]>> >>
          ELSE <<>>) \o DumpsFrom(state, i + 1)

DumpsFromSecondKey(state) == ObjectText(DumpsFrom(state, 2))
Dumps(state) == ObjectText(DumpsFrom(state, 1))

\* json.loads of an object text: the last pair of a key gives its value.
Loads(pairs) ==
    [k \in {pairs[i][1] : i \in DOMAIN pairs} |->
        pairs[CHOOSE i \in DOMAIN pairs :
                 /\ pairs[i][1] = k
                 /\ \A j \in DOMAIN pairs : pairs[j][1] = k => j <= i][2]]

\* load_state: [ok, map, value]; ok = FALSE is the RuntimeError raised on a
\* JSONDecodeError. json.loads returns whatever the text encodes: map = FALSE
\* is a returned value that is not a dict (value is then not looked at).
LoadStateAbsentRaises(file) ==
    IF file.kind = "object"
    THEN [ok |-> TRUE, map |-> TRUE, value |-> Loads(file.pairs)]
    ELSE IF file.kind = "array"
    THEN [ok |-> TRUE, map |-> FALSE, value |-> EmptyDict]
    ELSE [ok |-> FALSE, map |-> FALSE, value |-> EmptyDict]
load_state(file) ==
    IF file.kind = "absent"
    THEN [ok |-> TRUE, map |-> TRUE, value |-> EmptyDict]
    ELSE IF file.kind = "object"
    THEN [ok |-> TRUE, map |-> TRUE, value |-> Loads(file.pairs)]
    ELSE IF file.kind = "array"
    THEN [ok |-> TRUE, map |-> FALSE, value |-> EmptyDict]
    ELSE [ok |-> FALSE, map |-> FALSE, value |-> EmptyDict]

\* save_state: the file after STATE_FILE.write_text(json.dumps(...)).
save_state(state) == Dumps(state)

\* dict.update
DictUpdateOverwrite(state, updates) == updates
DictUpdate(state, updates) ==
    [k \in DOMAIN state \cup DOMAIN updates |->
        IF k \in DOMAIN updates THEN updates[k] ELSE state[k]]

\* update_state: the file it leaves and what it returns. state.update on a
\* loaded value that is not a dict raises AttributeError.
update_state(file, updates) ==
    LET got == load_state(file) IN
    IF ~got.ok \/ ~got.map THEN [file |-> file, ok |-> FALSE, value |-> EmptyDict]
    ELSE LET state == DictUpdate(got.value, updates) IN
         [file |-> save_state(state), ok |-> TRUE, value |-> state]

\* Keys used by the sequential calls of the state specification.
TestKeys == {"a", "b"}

InitState ==
    /\ stateFile \in {AbsentFile, GarbageText, EmptyText, ArrayText}
                     \cup {Dumps(d) : d \in DictsOver(TestKeys)}
    /\ stBase = stateFile
    /\ stHist = <<>>
    /\ stCalls = 0
    /\ stResult = [op |-> "none", ok |-> TRUE, map |-> TRUE, value |-> EmptyDict]
    /\ stSaved = NotSaved

\* A call of utils.update_state(updates).
UpdateStateCall(updates) ==
    /\ stCalls < MaxCalls
    /\ LET r == update_state(stateFile, updates) IN
        /\ stateFile' = r.file
        /\ stResult' = [op |-> "update_state", ok |-> r.ok, map |-> TRUE, value |-> r.value]
        /\ stHist' = IF r.ok THEN Append(stHist, updates) ELSE stHist
    /\ stCalls' = stCalls + 1
    /\ UNCHANGED <<stBase, stSaved>>
    /\ UNCHANGED othersState

\* A call of utils.save_state(state).
SaveStateCall(state) ==
    /\ stCalls < MaxCalls
    /\ stateFile' = save_state(state)
    /\ stResult' = [op |-> "save_state", ok |-> TRUE, map |-> TRUE, value |-> EmptyDict]
    /\ stSaved' = [set |-> TRUE, map |-> state]
    /\ stBase' = stateFile'
    /\ stHist' = <<>>
    /\ stCalls' = stCalls + 1
    /\ UNCHANGED othersState

\* A call of utils.load_state().
LoadStateCall ==
    /\ stCalls < MaxCalls
    /\ LET r == load_state(stateFile) IN
        stResult' = [op |-> "load_state", ok |-> r.ok, map |-> r.map, value |-> r.value]
    /\ stCalls' = stCalls + 1
    /\ UNCHANGED <<stateFile, stBase, stHist, stSaved>>
    /\ UNCHANGED othersState

(***************************************************************************)
(* Two phases running update_state at the same time on the same file       *)
(***************************************************************************)

\* load_test.main and monitor_resources.main, named by the script.
Writers == {"load_test", "monitor_resources"}

\* The key each of them passes to update_state.
WriterKey(p) == IF p = "load_test" THEN "load_test" ELSE "resource_metrics"

ConcKeys == {"a", "load_test", "resource_metrics"}

InitConc ==
    /\ stateFile \in {AbsentFile} \cup {Dumps(d) : d \in DictsOver(ConcKeys)}
    /\ stBase = stateFile
    /\ stHist = <<>>
    /\ stCalls = 0
    /\ stResult = [op |-> "none", ok |-> TRUE, map |-> TRUE, value |-> EmptyDict]
    /\ stSaved = NotSaved
    /\ cpc = [p \in Writers |-> "start"]
    /\ clocal = [p \in Writers |-> EmptyDict]

\* update_state, first half: state = load_state(); state.update(updates).
ConcLoad(p, v) ==
    /\ cpc[p] = "start"
    /\ LET got == load_state(stateFile) IN
        IF got.ok
        THEN /\ clocal' = [clocal EXCEPT ![p] =
                              DictUpdate(got.value, [k \in {WriterKey(p)} |-> v])]
             /\ cpc' = [cpc EXCEPT ![p] = "merged"]
        ELSE /\ cpc' = [cpc EXCEPT ![p] = "raised"]
             /\ UNCHANGED clocal
    /\ UNCHANGED stateVars
    /\ UNCHANGED othersConc

\* save_state, write_text opening the file for writing: it is truncated.
ConcOpen(p) ==
    /\ cpc[p] = "merged"
    /\ stateFile' = EmptyText
    /\ cpc' = [cpc EXCEPT ![p] = "opened"]
    /\ UNCHANGED <<stBase, stHist, stCalls, stResult, stSaved, clocal>>
    /\ UNCHANGED othersConc

\* save_state, write_text writing the text at offset 0 and closing. Over a
\* text the other writer wrote since this one's open, a shorter text leaves
\* the other's tail behind it: bytes that are not JSON.
ConcWrite(p) ==
    /\ cpc[p] = "opened"
    /\ \/ stateFile' = save_state(clocal[p])
       \/ /\ stateFile.kind # "empty"
          /\ stateFile' = GarbageText
    /\ cpc' = [cpc EXCEPT ![p] = "done"]
    /\ UNCHANGED <<stBase, stHist, stCalls, stResult, stSaved, clocal>>
    /\ UNCHANGED othersConc

(***************************************************************************)
(* load_test.py: LoadGenerator                                             *)
(***************************************************************************)

\* Strings whose characters matter are sequences of characters.
FooHost == <<"f", "o", "o", ".", "l", "o", "c", "a", "l", "h", "o", "s", "t">>
BarHost == <<"b", "a", "r", ".", "l", "o", "c", "a", "l", "h", "o", "s", "t">>
HOSTS == <<FooHost, BarHost>>
HostSet == {HOSTS[i] : i \in DOMAIN HOSTS}

\* Bounds on the command line of one invocation.
MaxRequests == 3
MaxWarmup == 2

\* Latencies a request can be measured with, in clock ticks.
Latencies == {0, 1}

\* What session.get can do: return a response, or raise. Timeout and
\* ConnectionError (connection refused, DNS failure) are RequestExceptions.
Bodies == { <<"f", "o", "o">>,
            <<"x", "b", "a", "r">>,
            <<"f", "o">> }
Statuses == {200, 503}
HttpResponses == [kind : {"response"}, status : Statuses, body : Bodies]
TransportFailures ==
    [kind : {"Timeout", "ConnectionError"}, status : {0}, body : {<<>>}]
GetOutcomes == HttpResponses \cup TransportFailures
NoOutcome == [kind |-> "none", status |-> 0, body |-> <<>>, latency |-> 0]

\* The exception classes the except clauses name: requests.RequestException.
IsTimeoutOnly(kind) == kind = "Timeout"
IsRequestException(kind) == kind \in {"Timeout", "ConnectionError"}

\* host.split(".")[0]
RECURSIVE SplitFirst(_)
SplitFirst(str) ==
    IF str = <<>> \/ Head(str) = "." THEN <<>>
    ELSE <<Head(str)>> \o SplitFirst(Tail(str))

\* expected in text
Contains(text, expected) ==
    \E i \in 0..(Len(text) - Len(expected)) :
        SubSeq(text, i + 1, i + Len(expected)) = expected

\* warmup, one pass of its loop on the response of attempt number `attempt`:
\* "return" on a 200, "retry" while attempts are left, "raise" after the last.
WarmupUsesAllAttempts(attempt, attempts, out) ==
    IF attempt < attempts THEN "retry"
    ELSE IF out.kind = "response" /\ out.status = 200 THEN "return" ELSE "raise"
WarmupNeverRaises(attempt, attempts, out) ==
    IF out.kind = "response" /\ out.status = 200 THEN "return"
    ELSE IF attempt < attempts THEN "retry" ELSE "return"
WarmupPass(attempt, attempts, out) ==
    IF out.kind = "response" /\ out.status = 200 THEN "return"
    ELSE IF attempt < attempts THEN "retry" ELSE "raise"

\* Rationals, as numerator over denominator.
Rat(n, d) == [num |-> n, den |-> d]
Zero == Rat(0, 1)

RECURSIVE SumSeq(_)
SumSeq(s) == IF s = <<>> THEN 0 ELSE Head(s) + SumSeq(Tail(s))

MaxSeq(s) == CHOOSE x \in {s[i] : i \in DOMAIN s} : \A j \in DOMAIN s : s[j] <= x

\* Python floats are binary floating point: every arithmetic result is rounded
\* to the nearest value with a fixed number of significant bits, ties to the
\* even mantissa.  Precision is that number of bits (53 in CPython).
Precision == 8

Pow2(n) == 2 ^ n

\* The denominators a float can have at this size of numbers.
PowersOfTwo == {Pow2(n) : n \in 0..30}

\* How often num must be doubled to reach at least floor * den.
RECURSIVE ShiftUp(_, _, _)
ShiftUp(num, den, floor) ==
    IF num >= floor * den THEN 0 ELSE 1 + ShiftUp(2 * num, den, floor)

\* How often den must be doubled for num to fall below ceil * den.
RECURSIVE ShiftDown(_, _, _)
ShiftDown(num, den, ceil) ==
    IF num < ceil * den THEN 0 ELSE 1 + ShiftDown(num, 2 * den, ceil)

\* The same value with the powers of two cancelled.
RECURSIVE Reduce(_)
Reduce(x) ==
    IF x.num = 0 THEN Zero
    ELSE IF x.num % 2 = 0 /\ x.den % 2 = 0
         THEN Reduce(Rat(x.num \div 2, x.den \div 2))
         ELSE x

\* The float nearest to the non-negative rational x: x itself if it has no
\* more than Precision significant bits.
Float(x) ==
    LET exact == Reduce(x)
    IN IF exact.num < Pow2(Precision) /\ exact.den \in PowersOfTwo THEN exact
       ELSE LET up == ShiftUp(exact.num, exact.den, Pow2(Precision - 1))
                down == ShiftDown(exact.num, exact.den, Pow2(Precision))
                n == exact.num * Pow2(up)
                d == exact.den * Pow2(down)
                m == n \div d
                r == n % d
                mantissa == IF 2 * r > d \/ (2 * r = d /\ m % 2 = 1)
                            THEN m + 1 ELSE m
            IN Reduce(Rat(mantissa * Pow2(down), Pow2(up)))

\* Float operations on floats (their denominators are powers of two): the
\* exact result, rounded.
FloatMul(a, b) == Float(Reduce(Rat(a.num * b.num, a.den * b.den)))
FloatAdd(a, b) ==
    IF a.den >= b.den
    THEN Float(Rat(a.num + b.num * (a.den \div b.den), a.den))
    ELSE Float(Rat(a.num * (b.den \div a.den) + b.num, b.den))
\* a - b for a >= b
FloatSub(a, b) ==
    IF a.den >= b.den
    THEN Float(Rat(a.num - b.num * (a.den \div b.den), a.den))
    ELSE Float(Rat(a.num * (b.den \div a.den) - b.num, b.den))

\* int(k) of a non-negative float
IntOf(k) == k.num \div k.den

\* The float literals of pct hundredths: 0.50, 0.90, 0.95, 0.99, ...
Literals == [pct \in 0..100 |-> Float(Rat(pct, 100))]
Literal(pct) == Literals[pct]

PercentileUnsorted(latencies, pct) ==
    IF latencies = <<>> THEN Zero
    ELSE LET ordered == latencies
             k == FloatMul(Rat(Len(ordered) - 1, 1), Literal(pct))
             f == IntOf(k)
             c == IF f + 1 < Len(ordered) - 1 THEN f + 1 ELSE Len(ordered) - 1
         IN IF f = c THEN Rat(ordered[f + 1], 1)
            ELSE FloatAdd(
                    FloatMul(Rat(ordered[f + 1], 1), FloatSub(Rat(c, 1), k)),
                    FloatMul(Rat(ordered[c + 1], 1), FloatSub(k, Rat(f, 1))))
PercentileNoEqualBranch(latencies, pct) ==
    IF latencies = <<>> THEN Zero
    ELSE LET ordered == SortSeq(latencies, LAMBDA a, b : a < b)
             k == FloatMul(Rat(Len(ordered) - 1, 1), Literal(pct))
             f == IntOf(k)
             c == IF f + 1 < Len(ordered) - 1 THEN f + 1 ELSE Len(ordered) - 1
         IN FloatAdd(
               FloatMul(Rat(ordered[f + 1], 1), FloatSub(Rat(c, 1), k)),
               FloatMul(Rat(ordered[c + 1], 1), FloatSub(k, Rat(f, 1))))
\* percentile(latencies, pct), pct given in hundredths; latencies are whole
\* numbers of clock ticks, which are floats as they stand.
percentile(latencies, pct) ==
    IF latencies = <<>> THEN Zero
    ELSE LET ordered == SortSeq(latencies, LAMBDA a, b : a < b)
             k == FloatMul(Rat(Len(ordered) - 1, 1), Literal(pct))
             f == IntOf(k)
             c == IF f + 1 < Len(ordered) - 1 THEN f + 1 ELSE Len(ordered) - 1
         IN IF f = c THEN Rat(ordered[f + 1], 1)
            ELSE FloatAdd(
                    FloatMul(Rat(ordered[f + 1], 1), FloatSub(Rat(c, 1), k)),
                    FloatMul(Rat(ordered[c + 1], 1), FloatSub(k, Rat(f, 1))))

ComputeMetricsRateInPercent(latencies, successes, attempts, duration, failures) ==
    IF attempts = 0
    THEN [rps |-> Zero, success_rate |-> Zero, avg |-> Zero, p50 |-> Zero,
          p90 |-> Zero, p95 |-> Zero, p99 |-> Zero, max |-> Zero]
    ELSE [rps |-> IF duration # 0 THEN Rat(attempts, duration) ELSE Zero,
          success_rate |-> Rat(successes * 100, attempts),
          avg |-> IF latencies # <<>>
                  THEN Rat(SumSeq(latencies), Len(latencies)) ELSE Zero,
          p50 |-> percentile(latencies, 50),
          p90 |-> percentile(latencies, 90),
          p95 |-> percentile(latencies, 95),
          p99 |-> percentile(latencies, 99),
          max |-> IF latencies # <<>> THEN Rat(MaxSeq(latencies), 1) ELSE Zero,
          requests |-> attempts,
          failures |-> failures]
ComputeMetricsRpsUnguarded(latencies, successes, attempts, duration, failures) ==
    IF attempts = 0
    THEN [rps |-> Zero, success_rate |-> Zero, avg |-> Zero, p50 |-> Zero,
          p90 |-> Zero, p95 |-> Zero, p99 |-> Zero, max |-> Zero]
    ELSE [rps |-> Rat(attempts, duration),
          success_rate |-> Rat(successes, attempts),
          avg |-> IF latencies # <<>>
                  THEN Rat(SumSeq(latencies), Len(latencies)) ELSE Zero,
          p50 |-> percentile(latencies, 50),
          p90 |-> percentile(latencies, 90),
          p95 |-> percentile(latencies, 95),
          p99 |-> percentile(latencies, 99),
          max |-> IF latencies # <<>> THEN Rat(MaxSeq(latencies), 1) ELSE Zero,
          requests |-> attempts,
          failures |-> failures]
\* compute_metrics: the keys of the dict it returns depend on attempts.
compute_metrics(latencies, successes, attempts, duration, failures) ==
    IF attempts = 0
    THEN [rps |-> Zero, success_rate |-> Zero, avg |-> Zero, p50 |-> Zero,
          p90 |-> Zero, p95 |-> Zero, p99 |-> Zero, max |-> Zero]
    ELSE [rps |-> IF duration # 0 THEN Rat(attempts, duration) ELSE Zero,
          success_rate |-> Rat(successes, attempts),
          avg |-> IF latencies # <<>>
                  THEN Rat(SumSeq(latencies), Len(latencies)) ELSE Zero,
          p50 |-> percentile(latencies, 50),
          p90 |-> percentile(latencies, 90),
          p95 |-> percentile(latencies, 95),
          p99 |-> percentile(latencies, 99),
          max |-> IF latencies # <<>> THEN Rat(MaxSeq(latencies), 1) ELSE Zero,
          requests |-> attempts,
          failures |-> failures]

\* combined.update({...}): the dict with two more keys.
WithTotals(m, duration, total) ==
    [k \in DOMAIN m \cup {"duration", "total_requests"} |->
        IF k = "duration" THEN duration
        ELSE IF k = "total_requests" THEN total
        ELSE m[k]]

\* run_load, the loop header: for _ in range(total_requests).
LoopRunsOneMore(i, n) == i <= n
LoopRuns(i, n) == i < n

\* run_load, stats[host]["attempts"] += 1
CountAttempt(st, host) ==
    [st EXCEPT ![host].attempts = @ + 1]

\* run_load, the success test of a response.
StatusOnly(host, out) == out.status = 200
IsSuccess(host, out) ==
    out.status = 200 /\ Contains(out.body, SplitFirst(host))

\* run_load, the try body and its except clause: what one outcome of
\* session.get does to stats.
RecordMisattributed(st, host, out, latency) ==
    LET other == CHOOSE h \in HostSet : h # host IN
    IF out.kind = "response" /\ IsSuccess(host, out)
    THEN [st EXCEPT ![host].latencies = Append(@, latency),
                    ![host].successes = @ + 1]
    ELSE [st EXCEPT ![host].latencies = Append(@, latency),
                    ![other].failures = @ + 1]
RecordOutcome(st, host, out, latency) ==
    IF out.kind = "response"
    THEN IF IsSuccess(host, out)
         THEN [st EXCEPT ![host].latencies = Append(@, latency),
                         ![host].successes = @ + 1]
         ELSE [st EXCEPT ![host].latencies = Append(@, latency),
                         ![host].failures = @ + 1]
    ELSE [st EXCEPT ![host].latencies = Append(@, latency),
                    ![host].failures = @ + 1]

\* run_load, from the end of the loop to its return.
RunLoadResults(st, duration) ==
    LET all == st[HOSTS[1]].latencies \o st[HOSTS[2]].latencies
        total_attempts == st[HOSTS[1]].attempts + st[HOSTS[2]].attempts
        total_successes == st[HOSTS[1]].successes + st[HOSTS[2]].successes
        total_failures == st[HOSTS[1]].failures + st[HOSTS[2]].failures
    IN [hosts |-> [h \in HostSet |->
                     compute_metrics(st[h].latencies, st[h].successes,
                                     st[h].attempts, duration, st[h].failures)],
        combined |-> WithTotals(
                        compute_metrics(all, total_successes, total_attempts,
                                        duration, total_failures),
                        duration, total_attempts)]

\* summarise: it reads metrics["requests"] and metrics["failures"] of every
\* host and combined["failures"]; a missing key raises KeyError.
summarise(res) ==
    IF /\ \A h \in HostSet : {"requests", "failures"} \subseteq DOMAIN res.hosts[h]
       /\ "failures" \in DOMAIN res.combined
    THEN [ok |-> TRUE, rows |-> Len(HOSTS)]
    ELSE [ok |-> FALSE, rows |-> 0]

NoResults == [hosts |-> <<>>, combined |-> <<>>]
FreshStats ==
    [h \in HostSet |-> [latencies |-> <<>>, successes |-> 0, failures |-> 0,
                        attempts |-> 0]]

InitLoad ==
    /\ lpc = "start"
    /\ totalRequests \in 0..MaxRequests
    /\ warmupAttempts \in 0..MaxWarmup
    /\ wIdx = 1
    /\ wAttempt = 0
    /\ wReqs = [h \in HostSet |-> 0]
    /\ wGot200 = [h \in HostSet |-> FALSE]
    /\ iter = 0
    /\ cur = HOSTS[1]
    /\ lastResp = NoOutcome
    /\ stats = FreshStats
    /\ issued = 0
    /\ results = NoResults
    /\ artifacts = {}
    /\ lexit = -1

IdleLoad ==
    /\ lpc = "idle"
    /\ totalRequests = 0
    /\ warmupAttempts = 0
    /\ wIdx = 1
    /\ wAttempt = 0
    /\ wReqs = [h \in HostSet |-> 0]
    /\ wGot200 = [h \in HostSet |-> FALSE]
    /\ iter = 0
    /\ cur = HOSTS[1]
    /\ lastResp = NoOutcome
    /\ stats = FreshStats
    /\ issued = 0
    /\ results = NoResults
    /\ artifacts = {}
    /\ lexit = -1

\* The process dies of an uncaught exception.
LoadCrash ==
    /\ lpc' = "crashed"
    /\ lexit' = 1

\* main up to the first warm-up request: with no attempt allowed, warmup
\* raises before any request.
LoadStart ==
    /\ lpc = "start"
    /\ IF warmupAttempts >= 1
       THEN lpc' = "warmup" /\ UNCHANGED lexit
       ELSE LoadCrash
    /\ UNCHANGED <<totalRequests, warmupAttempts, wIdx, wAttempt, wReqs, wGot200,
                   iter, cur, lastResp, stats, issued, results, artifacts>>
    /\ UNCHANGED stateVars
    /\ UNCHANGED othersLoad

\* warmup: one session.get and what follows it, up to the next request.
WarmupAttempt(out) ==
    /\ lpc = "warmup"
    /\ LET host == HOSTS[wIdx]
           next == WarmupPass(wAttempt + 1, warmupAttempts, out)
       IN /\ wReqs' = [wReqs EXCEPT ![host] = @ + 1]
          /\ wGot200' = [wGot200 EXCEPT ![host] =
                            @ \/ (out.kind = "response" /\ out.status = 200)]
          /\ IF out.kind # "response" /\ ~IsRequestException(out.kind)
             THEN LoadCrash /\ UNCHANGED <<wIdx, wAttempt, stats>>
             ELSE IF next = "retry"
             THEN /\ wAttempt' = wAttempt + 1
                  /\ UNCHANGED <<lpc, lexit, wIdx, stats>>
             ELSE IF next = "raise"
             THEN LoadCrash /\ UNCHANGED <<wIdx, wAttempt, stats>>
             ELSE IF wIdx < Len(HOSTS)
             THEN /\ wIdx' = wIdx + 1
                  /\ wAttempt' = 0
                  /\ UNCHANGED <<lpc, lexit, stats>>
             ELSE /\ lpc' = "load"
                  /\ stats' = FreshStats
                  /\ UNCHANGED <<lexit, wIdx, wAttempt>>
    /\ UNCHANGED <<totalRequests, warmupAttempts, iter, cur, lastResp, issued,
                   results, artifacts>>
    /\ UNCHANGED stateVars
    /\ UNCHANGED othersLoad

\* run_load: an iteration up to its session.get.
IssueRequest(host) ==
    /\ lpc = "load"
    /\ LoopRuns(iter, totalRequests)
    /\ iter' = iter + 1
    /\ cur' = host
    /\ stats' = CountAttempt(stats, host)
    /\ issued' = issued + 1
    /\ lpc' = "await"
    /\ UNCHANGED <<totalRequests, warmupAttempts, wIdx, wAttempt, wReqs, wGot200,
                   lastResp, results, artifacts, lexit>>
    /\ UNCHANGED stateVars
    /\ UNCHANGED othersLoad

\* run_load: the rest of the iteration, on the outcome of session.get.
CompleteRequest(out, latency) ==
    /\ lpc = "await"
    /\ lastResp' = [kind |-> out.kind, status |-> out.status, body |-> out.body,
                    latency |-> latency]
    /\ IF out.kind = "response" \/ IsRequestException(out.kind)
       THEN /\ stats' = RecordOutcome(stats, cur, out, latency)
            /\ lpc' = "load"
            /\ UNCHANGED lexit
       ELSE LoadCrash /\ UNCHANGED stats
    /\ UNCHANGED <<totalRequests, warmupAttempts, wIdx, wAttempt, wReqs, wGot200,
                   iter, cur, issued, results, artifacts>>
    /\ UNCHANGED stateVars
    /\ UNCHANGED othersLoad

\* run_load: after the loop, the metrics and the return. The duration is the
\* time the requests took.
RunLoadReturn ==
    /\ lpc = "load"
    /\ ~LoopRuns(iter, totalRequests)
    /\ LET duration == SumSeq(stats[HOSTS[1]].latencies)
                         + SumSeq(stats[HOSTS[2]].latencies)
       IN results' = RunLoadResults(stats, duration)
    /\ lpc' = "write_json"
    /\ UNCHANGED <<totalRequests, warmupAttempts, wIdx, wAttempt, wReqs, wGot200,
                   iter, cur, lastResp, stats, issued, artifacts, lexit>>
    /\ UNCHANGED stateVars
    /\ UNCHANGED othersLoad

\* write_results: json_path.write_text(json.dumps(results, indent=2)).
WriteJson ==
    /\ lpc = "write_json"
    /\ artifacts' = artifacts \cup {"load-test-results.json"}
    /\ lpc' = "write_md"
    /\ UNCHANGED <<totalRequests, warmupAttempts, wIdx, wAttempt, wReqs, wGot200,
                   iter, cur, lastResp, stats, issued, results, lexit>>
    /\ UNCHANGED stateVars
    /\ UNCHANGED othersLoad

\* write_results: markdown = summarise(results); md_path.write_text(markdown).
WriteMarkdown ==
    /\ lpc = "write_md"
    /\ IF summarise(results).ok
       THEN /\ artifacts' = artifacts \cup {"load-test-results.md"}
            /\ lpc' = "update_state"
            /\ UNCHANGED lexit
       ELSE LoadCrash /\ UNCHANGED artifacts
    /\ UNCHANGED <<totalRequests, warmupAttempts, wIdx, wAttempt, wReqs, wGot200,
                   iter, cur, lastResp, stats, issued, results>>
    /\ UNCHANGED stateVars
    /\ UNCHANGED othersLoad

\* main: utils.update_state({"load_test": {**paths, "results": results}}).
LoadUpdateState ==
    /\ lpc = "update_state"
    /\ LET value == [json |-> "load-test-results.json",
                     markdown |-> "load-test-results.md",
                     results |-> results]
           r == update_state(stateFile, [k \in {"load_test"} |-> value])
       IN /\ stateFile' = r.file
          /\ IF r.ok THEN lpc' = "done" /\ lexit' = 0 ELSE LoadCrash
    /\ UNCHANGED <<stBase, stHist, stCalls, stResult, stSaved>>
    /\ UNCHANGED othersLoad
    /\ UNCHANGED <<totalRequests, warmupAttempts, wIdx, wAttempt, wReqs, wGot200,
                   iter, cur, lastResp, stats, issued, results, artifacts>>

(***************************************************************************)
(* monitor_resources.py: ResourceMonitor                                   *)
(***************************************************************************)

\* Seconds start_port_forward waits for the tunnel, the timeout of one
\* readiness probe, the sleep between two probes, and the grace period the
\* cleanup gives the process.
PortForwardDeadline == 15
ProbeTimeout == 5
ProbeSleep == 1
GracePeriod == 5

\* Bounds on --duration and --interval.
MaxDuration == 3
MaxInterval == 2

\* What a probe of /-/healthy can do: is_prometheus_ready returns True or
\* False (it catches RequestException), or another exception leaves it.
ProbeOutcomes == {"ready", "notready", "raise"}

\* is_prometheus_ready: what it returns on a probe that raised nothing.
IsPrometheusReadyAlways(outcome) == TRUE
IsPrometheusReadyNever(outcome) == FALSE
is_prometheus_ready(outcome) == outcome = "ready"

\* The fields a sample can carry besides its timestamp.
Fields == {"cpu_cores", "memory_mb", "network_rx_mbps", "network_tx_mbps",
           "running_pods"}
RateFields == <<"cpu_cores", "memory_mb", "network_rx_mbps", "network_tx_mbps">>

\* collect_metrics: the dicts it returns in this model, by the queries that
\* returned data. A field whose query returned nothing is absent.
SampleOf(present, v) == [f \in present |-> v]
Samples ==
    { SampleOf(Fields, 1),
      SampleOf({}, 0),
      SampleOf({"cpu_cores"}, 0),
      SampleOf(Fields \ {"running_pods"}, 2) }

\* The five queries of collect_metrics, in the order it issues them.
QueryOrder == <<"cpu_cores", "memory_mb", "network_rx_mbps", "network_tx_mbps",
                "running_pods">>

\* What one query can meet: a result with data (the value is the one the
\* field's conversion yields), an empty result, a transport error, an HTTP
\* error status, a body whose status is not "success", a body that is not
\* JSON.
Answer(kind, value) == [kind |-> kind, value |-> value]
FailuresA ==
    [f \in Fields |->
        CASE f = "cpu_cores" -> "Timeout"
          [] f = "memory_mb" -> "HTTPError"
          [] f = "network_rx_mbps" -> "error_status"
          [] f = "network_tx_mbps" -> "empty"
          [] OTHER -> "ConnectionError"]
FailuresB ==
    [f \in Fields |->
        CASE f = "cpu_cores" -> "empty"
          [] f = "memory_mb" -> "error_status"
          [] f = "network_rx_mbps" -> "ConnectionError"
          [] f = "network_tx_mbps" -> "HTTPError"
          [] OTHER -> "empty"]
AnswersFor(sample, failures) ==
    [f \in Fields |->
        IF f \in DOMAIN sample THEN Answer("data", sample[f])
        ELSE Answer(failures[f], 0)]
QueryRuns ==
    {AnswersFor(s, FailuresA) : s \in Samples}
        \cup {AnswersFor(s, FailuresB) : s \in Samples}
        \cup {[AnswersFor(SampleOf(Fields, 1), FailuresA)
                  EXCEPT !["memory_mb"] = Answer("ValueError", 0)]}

\* query_prometheus, its except clause: requests.RequestException.
QueryExceptTimeoutOnly(kind) == kind = "Timeout"
QueryExcept(kind) == kind \in {"Timeout", "ConnectionError", "HTTPError"}

\* query_prometheus: the result list of the data it returns, None, or an
\* exception it does not catch.
query_prometheus(answer) ==
    IF answer.kind = "data"
    THEN [raised |-> FALSE, none |-> FALSE, result |-> <<answer.value>>]
    ELSE IF answer.kind = "empty"
    THEN [raised |-> FALSE, none |-> FALSE, result |-> <<>>]
    ELSE IF answer.kind = "error_status" \/ QueryExcept(answer.kind)
    THEN [raised |-> FALSE, none |-> TRUE, result |-> <<>>]
    ELSE [raised |-> TRUE, none |-> TRUE, result |-> <<>>]

\* metrics[key] = value
Put(metrics, key, value) ==
    [k \in DOMAIN metrics \cup {key} |-> IF k = key THEN value ELSE metrics[k]]

\* collect_metrics from its i-th query on: the metrics so far, the queries
\* issued, and whether an exception ended it.
RECURSIVE CollectFrom(_, _, _)
CollectFrom(i, answers, acc) ==
    IF i > Len(QueryOrder) THEN acc
    ELSE LET key == QueryOrder[i]
             r == query_prometheus(answers[key])
             sent == Append(acc.issued, key)
         IN IF r.raised
            THEN [metrics |-> acc.metrics, issued |-> sent, raised |-> TRUE]
            ELSE CollectFrom(i + 1, answers,
                    [metrics |-> IF ~r.none /\ r.result # <<>>
                                 THEN Put(acc.metrics, key, r.result[1])
                                 ELSE acc.metrics,
                     issued |-> sent,
                     raised |-> FALSE])

\* collect_metrics: the five queries, then the timestamp.
collect_metrics(answers, now) ==
    LET got == CollectFrom(1, answers,
                   [metrics |-> <<>>, issued |-> <<>>, raised |-> FALSE])
    IN IF got.raised THEN got
       ELSE [got EXCEPT !.metrics = Put(@, "timestamp", now)]

\* monitor_resources, its loop condition: time.time() < end_time.
SamplingContinuesAtEnd(now, endTime) == now <= endTime
SamplingContinues(now, endTime) == now < endTime

\* [s[key] for s in samples if key in s]
RECURSIVE ValuesOf(_, _)
ValuesOf(list, key) ==
    IF list = <<>> THEN <<>>
    ELSE (IF key \in DOMAIN Head(list) THEN <<Head(list)[key]>> ELSE <<>>)
            \o ValuesOf(Tail(list), key)

\* [s.get("running_pods", 0) for s in samples]
RECURSIVE PodCounts(_)
PodCounts(list) ==
    IF list = <<>> THEN <<>>
    ELSE <<IF "running_pods" \in DOMAIN Head(list)
           THEN Head(list)["running_pods"] ELSE 0>>
            \o PodCounts(Tail(list))

MinSeq(s) == CHOOSE x \in {s[i] : i \in DOMAIN s} : \A j \in DOMAIN s : x <= s[j]

\* compute_statistics: a dict from field to its statistics.
compute_statistics(list) ==
    IF list = <<>> THEN <<>>
    ELSE LET rate == {RateFields[i] : i \in DOMAIN RateFields}
             kept == {key \in rate : ValuesOf(list, key) # <<>>}
             pods == PodCounts(list)
             keys == kept \cup (IF pods # <<>> THEN {"running_pods"} ELSE {})
         IN [key \in keys |->
               IF key = "running_pods"
               THEN [avg |-> Rat(SumSeq(pods), Len(pods)),
                     min |-> Zero, max |-> Zero, n |-> Len(pods)]
               ELSE LET values == ValuesOf(list, key) IN
                    [avg |-> Rat(SumSeq(values), Len(values)),
                     min |-> Rat(MinSeq(values), 1),
                     max |-> Rat(MaxSeq(values), 1),
                     n |-> Len(values)]]

\* build_kube_env: whether it returns (the state names a kubeconfig and the
\* file is there).
build_kube_env_ok(state, kubeconfigExists) ==
    "kubeconfig" \in DOMAIN state /\ kubeconfigExists

\* start_port_forward, what it does before the Popen: the checks that raise.
PortForwardRefused(state, env) ==
    \/ ~env.kubectl
    \/ ~build_kube_env_ok(state, env.kubeconfigExists)
    \/ ~env.localUrl

InitMon ==
    /\ mpc = "start"
    /\ menv \in [kubectl : BOOLEAN, kubeconfigExists : BOOLEAN, localUrl : BOOLEAN,
                 duration : 0..MaxDuration, interval : 1..MaxInterval]
    /\ mstate = EmptyDict
    /\ proc = "none"
    /\ pfHandle = FALSE
    /\ pfWait = 0
    /\ spawned = 0
    /\ signals = <<>>
    /\ mNow = 0
    /\ mqueries = <<>>
    /\ probeOk = FALSE
    /\ samples = <<>>
    /\ mstats = <<>>
    /\ martifacts = {}
    /\ mret = -1
    /\ mexit = -1

IdleMon ==
    /\ mpc = "idle"
    /\ menv = [kubectl |-> TRUE, kubeconfigExists |-> TRUE, localUrl |-> TRUE,
               duration |-> 0, interval |-> 1]
    /\ mstate = EmptyDict
    /\ proc = "none"
    /\ pfHandle = FALSE
    /\ pfWait = 0
    /\ spawned = 0
    /\ signals = <<>>
    /\ mNow = 0
    /\ mqueries = <<>>
    /\ probeOk = FALSE
    /\ samples = <<>>
    /\ mstats = <<>>
    /\ martifacts = {}
    /\ mret = -1
    /\ mexit = -1

\* Leaving the try block with a return value or an exception: the finally
\* clause runs next.
MonLeaveTry(code) ==
    /\ mpc' = "finally"
    /\ mret' = code

\* main up to the try: load_state raises on a malformed file.
MonStart ==
    /\ mpc = "start"
    /\ LET got == load_state(stateFile) IN
        IF got.ok
        THEN /\ mstate' = got.value
             /\ mpc' = "probe"
             /\ UNCHANGED mexit
        ELSE /\ mpc' = "exited"
             /\ mexit' = 1
             /\ UNCHANGED mstate
    /\ UNCHANGED <<menv, proc, pfHandle, pfWait, spawned, signals, mNow, samples,
                   mstats, martifacts, mret>>
    /\ UNCHANGED stateVars
    /\ UNCHANGED othersMon
    /\ UNCHANGED <<mqueries, probeOk>>

\* main: the direct probe and, when it fails, start_port_forward up to the
\* Popen. RuntimeError and FileNotFoundError are caught: return 1.
MonProbe(outcome) ==
    /\ mpc = "probe"
    /\ probeOk' = (probeOk \/ outcome = "ready")
    /\ IF outcome # "raise" /\ is_prometheus_ready(outcome)
       THEN /\ mpc' = "sampling"
            /\ UNCHANGED <<proc, pfWait, spawned, mret>>
       ELSE IF outcome = "raise" \/ PortForwardRefused(mstate, menv)
       THEN /\ MonLeaveTry(1)
            /\ UNCHANGED <<proc, pfWait, spawned>>
       ELSE /\ proc' = "running"
            /\ spawned' = spawned + 1
            /\ pfWait' = 0
            /\ mpc' = "pf_wait"
            /\ UNCHANGED mret
    /\ UNCHANGED <<menv, mstate, pfHandle, signals, mNow, samples, mstats,
                   martifacts, mexit>>
    /\ UNCHANGED stateVars
    /\ UNCHANGED othersMon
    /\ UNCHANGED <<mqueries>>

\* start_port_forward: one pass of its wait loop. The probe takes `delay`
\* seconds; the loop ends when the deadline has passed. Only a return hands
\* the process to main's port_forward_proc: a raise leaves it None.
PortForwardWait(outcome, delay) ==
    /\ mpc = "pf_wait"
    /\ probeOk' = (probeOk \/ (proc = "running" /\ outcome = "ready"))
    /\ IF proc # "running"
       THEN /\ MonLeaveTry(1)
            /\ UNCHANGED <<pfHandle, pfWait>>
       ELSE IF outcome # "raise" /\ is_prometheus_ready(outcome)
       THEN /\ pfHandle' = TRUE
            /\ mpc' = "probe_again"
            /\ UNCHANGED <<pfWait, mret>>
       ELSE IF outcome = "raise"
       THEN /\ MonLeaveTry(1)
            /\ UNCHANGED <<pfHandle, pfWait>>
       ELSE /\ pfWait' = pfWait + delay + ProbeSleep
            /\ IF pfWait' < PortForwardDeadline
               THEN UNCHANGED <<mpc, mret, pfHandle>>
               ELSE /\ MonLeaveTry(1)
                    /\ UNCHANGED pfHandle
    /\ UNCHANGED <<menv, mstate, proc, spawned, signals, mNow, samples, mstats,
                   martifacts, mexit>>
    /\ UNCHANGED stateVars
    /\ UNCHANGED othersMon
    /\ UNCHANGED <<mqueries>>

\* main: the probe after the port-forward came up.
MonProbeAgain(outcome) ==
    /\ mpc = "probe_again"
    /\ probeOk' = (probeOk \/ outcome = "ready")
    /\ IF outcome # "raise" /\ is_prometheus_ready(outcome)
       THEN mpc' = "sampling" /\ UNCHANGED mret
       ELSE MonLeaveTry(1)
    /\ UNCHANGED <<menv, mstate, proc, pfHandle, pfWait, spawned, signals, mNow,
                   samples, mstats, martifacts, mexit>>
    /\ UNCHANGED stateVars
    /\ UNCHANGED othersMon
    /\ UNCHANGED <<mqueries>>

\* monitor_resources: one pass of its loop. collect_metrics takes `cost`
\* seconds, then the loop sleeps for the interval. An exception that leaves
\* collect_metrics leaves main.
MonSample(answers, cost) ==
    /\ mpc = "sampling"
    /\ SamplingContinues(mNow, menv.duration)
    /\ LET got == collect_metrics(answers, mNow + cost) IN
       /\ mqueries' = [i \in DOMAIN got.issued |->
                          [field |-> got.issued[i],
                           kind |-> answers[got.issued[i]].kind,
                           value |-> answers[got.issued[i]].value]]
       /\ IF got.raised
          THEN /\ MonLeaveTry(1)
               /\ UNCHANGED <<samples, mNow>>
          ELSE /\ samples' = IF DOMAIN got.metrics # {}
                             THEN Append(samples, got.metrics) ELSE samples
               /\ mNow' = mNow + cost + menv.interval
               /\ UNCHANGED <<mpc, mret>>
    /\ UNCHANGED <<menv, mstate, proc, pfHandle, pfWait, spawned, signals,
                   probeOk, mstats, martifacts, mexit>>
    /\ UNCHANGED stateVars
    /\ UNCHANGED othersMon

\* main: `if not samples`, the test that ends the run with 1 before
\* anything is written.
NoSamplesIgnored(list) == FALSE
NoSamples(list) == list = <<>>

\* main: after the loop, no sample means return 1; otherwise the statistics.
MonAfterSampling ==
    /\ mpc = "sampling"
    /\ ~SamplingContinues(mNow, menv.duration)
    /\ IF NoSamples(samples)
       THEN MonLeaveTry(1) /\ UNCHANGED mstats
       ELSE /\ mstats' = compute_statistics(samples)
            /\ mpc' = "write_json"
            /\ UNCHANGED mret
    /\ UNCHANGED <<menv, mstate, proc, pfHandle, pfWait, spawned, signals, mNow,
                   samples, martifacts, mexit>>
    /\ UNCHANGED stateVars
    /\ UNCHANGED othersMon
    /\ UNCHANGED <<mqueries, probeOk>>

\* main: metrics_path.write_text(json.dumps(output, indent=2)).
MonWriteJson ==
    /\ mpc = "write_json"
    /\ martifacts' = martifacts \cup {"resource-metrics.json"}
    /\ mpc' = "write_md"
    /\ UNCHANGED <<menv, mstate, proc, pfHandle, pfWait, spawned, signals, mNow,
                   samples, mstats, mret, mexit>>
    /\ UNCHANGED stateVars
    /\ UNCHANGED othersMon
    /\ UNCHANGED <<mqueries, probeOk>>

\* main: md_path.write_text(format_markdown(stats)).
MonWriteMarkdown ==
    /\ mpc = "write_md"
    /\ martifacts' = martifacts \cup {"resource-metrics.md"}
    /\ mpc' = "update_state"
    /\ UNCHANGED <<menv, mstate, proc, pfHandle, pfWait, spawned, signals, mNow,
                   samples, mstats, mret, mexit>>
    /\ UNCHANGED stateVars
    /\ UNCHANGED othersMon
    /\ UNCHANGED <<mqueries, probeOk>>

\* main: utils.update_state({"resource_metrics": {...}}); return 0.
MonUpdateState ==
    /\ mpc = "update_state"
    /\ LET value == [json |-> "resource-metrics.json",
                     markdown |-> "resource-metrics.md",
                     statistics |-> mstats]
           r == update_state(stateFile, [k \in {"resource_metrics"} |-> value])
       IN /\ stateFile' = r.file
          /\ MonLeaveTry(IF r.ok THEN 0 ELSE 1)
    /\ UNCHANGED <<stBase, stHist, stCalls, stResult, stSaved>>
    /\ UNCHANGED <<menv, mstate, proc, pfHandle, pfWait, spawned, signals, mNow,
                   samples, mstats, martifacts, mexit>>
    /\ UNCHANGED othersMon
    /\ UNCHANGED <<mqueries, probeOk>>

\* main, the finally clause: terminate, wait for the grace period, kill a
\* process that is still there. Then the process exits.
MonFinally(exitsInGrace) ==
    /\ mpc = "finally"
    /\ IF pfHandle
       THEN IF proc = "running"
            THEN IF exitsInGrace
                 THEN proc' = "terminated" /\ signals' = <<"terminate">>
                 ELSE proc' = "killed" /\ signals' = <<"terminate", "kill">>
            ELSE UNCHANGED proc /\ signals' = <<"terminate">>
       ELSE UNCHANGED <<proc, signals>>
    /\ mpc' = "exited"
    /\ mexit' = mret
    /\ UNCHANGED <<menv, mstate, pfHandle, pfWait, spawned, mNow, samples, mstats,
                   martifacts, mret>>
    /\ UNCHANGED stateVars
    /\ UNCHANGED othersMon
    /\ UNCHANGED <<mqueries, probeOk>>

\* kubectl port-forward exits on its own while main is running.
PortForwardDies ==
    /\ proc = "running"
    /\ mpc \in {"pf_wait", "probe_again", "sampling"}
    /\ proc' = "exited"
    /\ UNCHANGED <<mpc, menv, mstate, pfHandle, pfWait, spawned, signals, mNow,
                   samples, mstats, martifacts, mret, mexit>>
    /\ UNCHANGED stateVars
    /\ UNCHANGED othersMon
    /\ UNCHANGED <<mqueries, probeOk>>

(***************************************************************************)
(* check_health.py: ReadinessGate                                          *)
(***************************************************************************)

\* Bound on --retries.
MaxRetries == 2

\* The checks of main in the order it calls them.
Phases == <<"nodes", "webhooks", "ingress_controller", "deployments",
            "endpoints", "ingress_backends", "prometheus_rollout",
            "prometheus_connectivity">>

\* The two deployments and services the gate looks at, in loop order.
Workloads == <<"echo-foo", "echo-bar">>

\* What subprocess.run can do: exit 0, exit non-zero (kubectl wait does on
\* its own --timeout), or raise.
RunOutcomes == {"ok", "nonzero", "TimeoutExpired", "OSError"}
\* What a kubectl get with check=True can do: print something, print nothing,
\* or raise (CalledProcessError on a non-zero exit).
QueryOutcomes == {"found", "empty", "CalledProcessError", "TimeoutExpired", "OSError"}
\* What a requests.get followed by raise_for_status can do.
HttpOutcomes == {"ok", "RequestException", "ValueError"}

\* An exception message: its fixed text and the thing it names.
Message(text, subject) == [text |-> text, subject |-> subject]
NoMessage == Message("", "")

\* except Exception: it catches every exception of this model.
ExceptException(exc) ==
    exc \in {"RuntimeError", "TimeoutExpired", "OSError", "CalledProcessError",
             "RequestException", "ValueError", "FileNotFoundError"}

\* run_kubectl_wait: it returns, or raises RuntimeError with a message naming
\* the description.
RunKubectlWaitSwallowsTimeout(outcome, description) ==
    IF outcome \in {"ok", "TimeoutExpired"} THEN [ok |-> TRUE, msg |-> NoMessage]
    ELSE [ok |-> FALSE, msg |-> Message("Failed to verify", description)]
RunKubectlWaitIgnoresExit(outcome, description) ==
    IF outcome \in {"ok", "nonzero"} THEN [ok |-> TRUE, msg |-> NoMessage]
    ELSE IF outcome = "TimeoutExpired"
    THEN [ok |-> FALSE, msg |-> Message("Timeout exceeded waiting for", description)]
    ELSE [ok |-> FALSE, msg |-> Message("Failed to verify", description)]
run_kubectl_wait(outcome, description) ==
    IF outcome = "ok" THEN [ok |-> TRUE, msg |-> NoMessage]
    ELSE IF outcome = "TimeoutExpired"
    THEN [ok |-> FALSE, msg |-> Message("Timeout exceeded waiting for", description)]
    ELSE [ok |-> FALSE, msg |-> Message("Failed to verify", description)]

\* wait_for_admission_webhooks, its except clause: what it catches and logs.
WebhookExceptRuntimeOnly(exc) == exc = "RuntimeError"
WebhookExcept(exc) == ExceptException(exc)

InitGate ==
    /\ gpc = "start"
    /\ genv \in [kubectl : BOOLEAN, kubeconfigExists : BOOLEAN,
                 retries : 0..MaxRetries]
    /\ gsub = 1
    /\ gattempt = 0
    /\ gstarted = <<>>
    /\ gfailed = "none"
    /\ greport = NoMessage
    /\ gwebhook = <<>>
    /\ glog = {}
    /\ gproc = "none"
    /\ gsignals = <<>>
    /\ gexit = -1
    /\ gqueries = <<>>

IdleGate ==
    /\ gpc = "idle"
    /\ genv = [kubectl |-> TRUE, kubeconfigExists |-> TRUE, retries |-> 0]
    /\ gsub = 1
    /\ gattempt = 0
    /\ gstarted = <<>>
    /\ gfailed = "none"
    /\ greport = NoMessage
    /\ gwebhook = <<>>
    /\ glog = {}
    /\ gproc = "none"
    /\ gsignals = <<>>
    /\ gexit = -1
    /\ gqueries = <<>>

\* A kubectl get of a query check fails the check unless it printed
\* something: an empty output raises RuntimeError, and so does every
\* exception of the call (check=True, timeout=10).
QueryFailedOnErrorOnly(outcome) == outcome \notin {"found", "empty"}
QueryFailed(outcome) == outcome # "found"

\* The ghost record of one kubectl get.
GateQuery(check, subject, outcome) ==
    gqueries' = Append(gqueries, [check |-> check, subject |-> subject,
                                  outcome |-> outcome])

\* main, its except clause: log the exception and return 1.
GateAbort(msg) ==
    /\ greport' = msg
    /\ glog' = glog \cup {"HEALTH CHECK FAILED"}
    /\ gpc' = "done"
    /\ gexit' = 1

\* A check is entered: the ghost record of the checks started.
GateEnter(phase) ==
    gstarted' = IF gstarted = <<>> \/ gstarted[Len(gstarted)] # phase
                THEN Append(gstarted, phase) ELSE gstarted

\* The ghost record of the fatal check whose query failed.
GateNote(phase, failed) ==
    gfailed' = IF failed /\ gfailed = "none" THEN phase ELSE gfailed

\* main up to the first check: load_state, build_kube_env, ensure_binary.
GateStart ==
    /\ gpc = "start"
    /\ LET got == load_state(stateFile) IN
       IF ~got.ok
       THEN GateAbort(Message("Failed to parse state file", "state.json"))
       ELSE IF "kubeconfig" \notin DOMAIN got.value
       THEN GateAbort(Message("Kubeconfig path missing from state", "kubeconfig"))
       ELSE IF ~genv.kubeconfigExists
       THEN GateAbort(Message("Kubeconfig not found", "kubeconfig"))
       ELSE IF ~genv.kubectl
       THEN GateAbort(Message("Required binary not found on PATH", "kubectl"))
       ELSE /\ gpc' = "nodes"
            /\ UNCHANGED <<greport, glog, gexit>>
    /\ UNCHANGED <<genv, gsub, gattempt, gstarted, gfailed, gwebhook, gproc, gsignals>>
    /\ UNCHANGED gqueries
    /\ UNCHANGED stateVars
    /\ UNCHANGED othersGate

\* A check made of one run_kubectl_wait: wait_for_nodes,
\* wait_for_ingress_controller, wait_for_prometheus.
GateWait(phase, description, next, outcome) ==
    /\ gpc = phase
    /\ GateEnter(phase)
    /\ GateNote(phase, outcome # "ok")
    /\ LET r == run_kubectl_wait(outcome, description) IN
       IF r.ok
       THEN /\ gpc' = next
            /\ glog' = glog \cup {description}
            /\ UNCHANGED <<greport, gexit>>
       ELSE GateAbort(r.msg)
    /\ UNCHANGED <<genv, gsub, gattempt, gwebhook, gproc, gsignals>>
    /\ UNCHANGED gqueries
    /\ UNCHANGED stateVars
    /\ UNCHANGED othersGate

GateNodes(outcome) ==
    GateWait("nodes", "Kubernetes nodes to be Ready", "webhooks", outcome)

GateIngressController(outcome) ==
    GateWait("ingress_controller", "ingress-nginx controller pod to be Ready",
             "deployments", outcome)

GatePrometheusRollout(outcome) ==
    GateWait("prometheus_rollout", "Prometheus deployment to be Ready",
             "prometheus_connectivity", outcome)

\* wait_for_admission_webhooks: the wait for the webhook pods. A non-zero
\* exit is a warning; an exception ends the check in its except clause.
GateWebhookPods(outcome) ==
    /\ gpc = "webhooks"
    /\ GateEnter("webhooks")
    /\ gwebhook' = Append(gwebhook, outcome)
    /\ IF outcome \in {"ok", "nonzero"}
       THEN /\ glog' = glog \cup {IF outcome = "ok" THEN "Admission webhooks READY"
                                  ELSE "Webhook pods not found"}
            /\ gpc' = "webhook_jobs"
            /\ UNCHANGED <<greport, gexit>>
       ELSE IF WebhookExcept(outcome)
       THEN /\ glog' = glog \cup {"Webhook check had issues (non-fatal)"}
            /\ gpc' = "ingress_controller"
            /\ UNCHANGED <<greport, gexit>>
       ELSE GateAbort(Message(outcome, "webhooks"))
    /\ UNCHANGED <<genv, gsub, gattempt, gfailed, gproc, gsignals>>
    /\ UNCHANGED gqueries
    /\ UNCHANGED stateVars
    /\ UNCHANGED othersGate

\* wait_for_admission_webhooks: the wait for the webhook jobs. Its exit code
\* is not looked at.
GateWebhookJobs(outcome) ==
    /\ gpc = "webhook_jobs"
    /\ gwebhook' = Append(gwebhook, outcome)
    /\ IF outcome \in {"ok", "nonzero"}
       THEN /\ glog' = glog \cup {"Webhook jobs COMPLETE"}
            /\ gpc' = "ingress_controller"
            /\ UNCHANGED <<greport, gexit>>
       ELSE IF WebhookExcept(outcome)
       THEN /\ glog' = glog \cup {"Webhook check had issues (non-fatal)"}
            /\ gpc' = "ingress_controller"
            /\ UNCHANGED <<greport, gexit>>
       ELSE GateAbort(Message(outcome, "webhooks"))
    /\ UNCHANGED <<genv, gsub, gattempt, gstarted, gfailed, gproc, gsignals>>
    /\ UNCHANGED gqueries
    /\ UNCHANGED stateVars
    /\ UNCHANGED othersGate

\* wait_for_deployments: the rollout status of one deployment.
GateDeployment(outcome) ==
    /\ gpc = "deployments"
    /\ GateEnter("deployments")
    /\ GateNote("deployments", outcome # "ok")
    /\ IF outcome = "ok"
       THEN /\ IF gsub < Len(Workloads)
               THEN gsub' = gsub + 1 /\ UNCHANGED gpc
               ELSE gsub' = 1 /\ gpc' = "endpoints"
            /\ UNCHANGED <<greport, glog, gexit>>
       ELSE /\ GateAbort(Message("Deployment not ready", Workloads[gsub]))
            /\ UNCHANGED gsub
    /\ UNCHANGED <<genv, gattempt, gwebhook, gproc, gsignals>>
    /\ UNCHANGED gqueries
    /\ UNCHANGED stateVars
    /\ UNCHANGED othersGate

\* verify_endpoints_exist: the one query of one service.
GateEndpoints(outcome) ==
    /\ gpc = "endpoints"
    /\ GateEnter("endpoints")
    /\ GateNote("endpoints", outcome # "found")
    /\ GateQuery("endpoints", Workloads[gsub], outcome)
    /\ IF ~QueryFailed(outcome)
       THEN /\ IF gsub < Len(Workloads)
               THEN gsub' = gsub + 1 /\ UNCHANGED gpc
               ELSE gsub' = 1 /\ gpc' = "ingress_backends"
            /\ UNCHANGED <<greport, glog, gexit>>
       ELSE /\ GateAbort(Message("Endpoint check failed for", Workloads[gsub]))
            /\ UNCHANGED gsub
    /\ UNCHANGED <<genv, gattempt, gwebhook, gproc, gsignals>>
    /\ UNCHANGED stateVars
    /\ UNCHANGED othersGate

\* verify_ingress_backends: its one query.
GateBackends(outcome) ==
    /\ gpc = "ingress_backends"
    /\ GateEnter("ingress_backends")
    /\ GateNote("ingress_backends", outcome # "found")
    /\ GateQuery("ingress_backends", "Ingress", outcome)
    /\ IF ~QueryFailed(outcome)
       THEN /\ gpc' = "prometheus_rollout"
            /\ UNCHANGED <<greport, glog, gexit>>
       ELSE GateAbort(Message("Ingress backend verification failed", "Ingress"))
    /\ UNCHANGED <<genv, gsub, gattempt, gwebhook, gproc, gsignals>>
    /\ UNCHANGED stateVars
    /\ UNCHANGED othersGate

\* verify_prometheus_connectivity, the finally clause: terminate, wait for
\* the grace period, kill.
GateCleanupSkipped(exitsInGrace) == UNCHANGED <<gproc, gsignals>>
GateCleanupKillsAtOnce(exitsInGrace) ==
    IF gproc = "running"
    THEN gproc' = "killed" /\ gsignals' = <<"kill">>
    ELSE UNCHANGED gproc /\ gsignals' = <<"kill">>
GateCleanup(exitsInGrace) ==
    IF gproc = "running"
    THEN IF exitsInGrace
         THEN gproc' = "terminated" /\ gsignals' = <<"terminate">>
         ELSE gproc' = "killed" /\ gsignals' = <<"terminate", "kill">>
    ELSE UNCHANGED gproc /\ gsignals' = <<"terminate">>

ConnectivityFailed == Message("Prometheus connectivity check failed", "Prometheus connectivity")

\* verify_prometheus_connectivity: the Popen of the port-forward. With no
\* retry allowed the probe loop is empty.
GateConnectivityStart(spawns) ==
    /\ gpc = "prometheus_connectivity"
    /\ GateEnter("prometheus_connectivity")
    /\ GateNote("prometheus_connectivity", ~spawns)
    /\ IF spawns
       THEN /\ gproc' = "running"
            /\ gpc' = IF genv.retries > 0 THEN "prometheus_probe" ELSE "prometheus_targets"
            /\ UNCHANGED <<greport, glog, gexit>>
       ELSE /\ GateAbort(ConnectivityFailed)
            /\ UNCHANGED gproc
    /\ UNCHANGED <<genv, gsub, gattempt, gwebhook, gsignals>>
    /\ UNCHANGED gqueries
    /\ UNCHANGED stateVars
    /\ UNCHANGED othersGate

\* verify_prometheus_connectivity, the probe loop: a failed attempt (counted
\* from 0) is followed by another one unless it was the last of max_retries.
ProbeRetriesForever(attempt, max_retries) == TRUE
ProbeRetries(attempt, max_retries) == attempt < max_retries - 1

\* verify_prometheus_connectivity: one probe of the API. The last failed
\* attempt raises; the finally clause then stops the port-forward.
GatePrometheusProbe(outcome, exitsInGrace) ==
    /\ gpc = "prometheus_probe"
    /\ IF outcome = "ok"
       THEN /\ gpc' = "prometheus_targets"
            /\ gattempt' = 0
            /\ UNCHANGED <<greport, glog, gexit, gproc, gsignals, gfailed>>
       ELSE IF outcome = "RequestException" /\ ProbeRetries(gattempt, genv.retries)
       THEN /\ gattempt' = gattempt + 1
            /\ UNCHANGED <<gpc, greport, glog, gexit, gproc, gsignals, gfailed>>
       ELSE /\ GateNote("prometheus_connectivity", TRUE)
            /\ GateCleanup(exitsInGrace)
            /\ GateAbort(ConnectivityFailed)
            /\ UNCHANGED gattempt
    /\ UNCHANGED <<genv, gsub, gstarted, gwebhook>>
    /\ UNCHANGED gqueries
    /\ UNCHANGED stateVars
    /\ UNCHANGED othersGate

\* verify_prometheus_connectivity: the scrape-targets query and the finally
\* clause; then main logs that every check passed and returns 0.
GatePrometheusTargets(outcome, exitsInGrace) ==
    /\ gpc = "prometheus_targets"
    /\ GateNote("prometheus_connectivity", outcome # "ok")
    /\ GateCleanup(exitsInGrace)
    /\ IF outcome = "ok"
       THEN /\ gpc' = "done"
            /\ gexit' = 0
            /\ glog' = glog \cup {"ALL HEALTH CHECKS PASSED"}
            /\ UNCHANGED greport
       ELSE GateAbort(ConnectivityFailed)
    /\ UNCHANGED <<genv, gsub, gattempt, gstarted, gwebhook>>
    /\ UNCHANGED gqueries
    /\ UNCHANGED stateVars
    /\ UNCHANGED othersGate

\* kubectl port-forward exits on its own during the connectivity check.
GatePortForwardDies ==
    /\ gproc = "running"
    /\ gpc \in {"prometheus_probe", "prometheus_targets"}
    /\ gproc' = "exited"
    /\ UNCHANGED <<gpc, genv, gsub, gattempt, gstarted, gfailed, greport, gwebhook,
                   glog, gsignals, gexit>>
    /\ UNCHANGED gqueries
    /\ UNCHANGED stateVars
    /\ UNCHANGED othersGate

(***************************************************************************)
(* load_test.py: one call of percentile or of compute_metrics              *)
(***************************************************************************)

\* Bounds on the latencies passed: how many, and how large in clock ticks.
MaxLen == 3
MaxLatency == 3

LatencyLists == UNION {[1..n -> 0..MaxLatency] : n \in 0..MaxLen}

\* Before compute_metrics has returned.
NoMetrics == [requests |-> 0]

InitPct ==
    /\ ppc = "call"
    /\ pin \in LatencyLists
    /\ ppct \in 0..100
    /\ pout = Zero
    /\ pmet = NoMetrics

IdlePct ==
    /\ ppc = "idle"
    /\ pin = <<>>
    /\ ppct = 0
    /\ pout = Zero
    /\ pmet = NoMetrics

\* percentile(latencies, pct) is called and returns.
PercentileCall ==
    /\ ppc = "call"
    /\ pout' = percentile(pin, ppct)
    /\ ppc' = "returned"
    /\ UNCHANGED <<pin, ppct, pmet>>
    /\ UNCHANGED othersPct

\* compute_metrics is called on the latencies of as many successes, out of
\* `attempts` requests in a window of one tick, and returns.
ComputeMetricsCall(attempts) ==
    /\ ppc = "call"
    /\ pmet' = compute_metrics(pin, Len(pin), attempts, 1, attempts - Len(pin))
    /\ ppc' = "computed"
    /\ UNCHANGED <<pin, ppct, pout>>
    /\ UNCHANGED othersPct

(***************************************************************************)
(* utils.py: one call of run_cmd                                           *)
(***************************************************************************)

\* Bound on the exit status of the command; a negative one is the number of
\* the signal that ended it.
MaxExitCode == 2

\* What the command printed on a stream, as characters.
OutputChars == {"t", " "}
OutputTexts == {<<>>} \cup [1..1 -> OutputChars] \cup [1..2 -> OutputChars]

\* str.strip: without the leading and trailing whitespace.
RECURSIVE LStrip(_)
LStrip(text) ==
    IF text # <<>> /\ Head(text) = " " THEN LStrip(Tail(text)) ELSE text
RECURSIVE RStrip(_)
RStrip(text) ==
    IF text # <<>> /\ text[Len(text)] = " "
    THEN RStrip(SubSeq(text, 1, Len(text) - 1)) ELSE text
Strip(text) == LStrip(RStrip(text))

\* What subprocess.run(check=False) does: it raises when the command cannot
\* be started, and returns a CompletedProcess otherwise.
Completions ==
    {[started |-> FALSE, returncode |-> 0, stdout |-> <<>>, stderr |-> <<>>]}
    \cup [started : {TRUE}, returncode : (0 - MaxExitCode)..MaxExitCode,
          stdout : OutputTexts, stderr : OutputTexts]

NoResult == [raised |-> "none", returncode |-> 0, stdout |-> <<>>, stderr |-> <<>>]

\* completed.stdout or "": the streams are None when they are not captured.
Captured(capture_output, text) == IF capture_output THEN text ELSE <<>>

\* run_cmd: the CommandResult it returns or the exception it raises (the
\* result's fields are then what the CommandError message quotes).
RunCmdIgnoresCheck(check, capture_output, completed) ==
    IF ~completed.started
    THEN [NoResult EXCEPT !.raised = "OSError"]
    ELSE [raised |-> IF completed.returncode # 0 THEN "CommandError" ELSE "none",
          returncode |-> completed.returncode,
          stdout |-> Strip(Captured(capture_output, completed.stdout)),
          stderr |-> Strip(Captured(capture_output, completed.stderr))]
run_cmd(check, capture_output, completed) ==
    IF ~completed.started
    THEN [NoResult EXCEPT !.raised = "OSError"]
    ELSE [raised |-> IF check /\ completed.returncode # 0 THEN "CommandError" ELSE "none",
          returncode |-> completed.returncode,
          stdout |-> Strip(Captured(capture_output, completed.stdout)),
          stderr |-> Strip(Captured(capture_output, completed.stderr))]

InitRunCmd ==
    /\ rpc = "call"
    /\ rin \in [check : BOOLEAN, capture_output : BOOLEAN, completed : Completions]
    /\ rout = NoResult

IdleRunCmd ==
    /\ rpc = "idle"
    /\ rin = [check |-> TRUE, capture_output |-> TRUE,
              completed |-> [started |-> FALSE, returncode |-> 0,
                             stdout |-> <<>>, stderr |-> <<>>]]
    /\ rout = NoResult

\* run_cmd(command, check=..., capture_output=...) is called and returns or
\* raises.
RunCmdCall ==
    /\ rpc = "call"
    /\ rout' = run_cmd(rin.check, rin.capture_output, rin.completed)
    /\ rpc' = IF rout'.raised = "none" THEN "returned" ELSE "raised"
    /\ UNCHANGED rin
    /\ UNCHANGED othersRunCmd

(***************************************************************************)
(* post_comment.py: one call of discover_pr_context                        *)
(***************************************************************************)

\* Bound on the pull request numbers of the event payloads.
MaxNumber == 2

\* An environment variable: not set, set to the empty string, or set.
EnvValues == {"unset", "empty", "set"}

\* The "number" of a pull_request object: absent, null, a JSON integer or a
\* JSON string (of digits, or of something else).
Numbers ==
    {[kind |-> k, value |-> 0] : k \in {"absent", "null", "word"}}
    \cup [kind : {"int", "digits"}, value : 0..MaxNumber]

\* The "pull_request" of a payload: absent, null, {}, a value that is not an
\* object, or an object with its number.
Pulls ==
    {[kind |-> k, number |-> [kind |-> "absent", value |-> 0]] :
        k \in {"absent", "null", "empty", "scalar"}}
    \cup [kind : {"object"}, number : Numbers]

\* The event file's text: not JSON, JSON that is not an object, or an object.
Payloads ==
    {[kind |-> k, pull |-> [kind |-> "absent",
                            number |-> [kind |-> "absent", value |-> 0]]] :
        k \in {"garbage", "array"}}
    \cup [kind : {"object"}, pull : Pulls]

\* What the call returns: each component None or a value; or what it raises.
Pair(repo, number) == [raised |-> "none", repo |-> repo, number |-> number]
None == [none |-> TRUE, value |-> 0]
Some(value) == [none |-> FALSE, value |-> value]
NonePair == Pair(None, None)
Raised(exc) == [raised |-> exc, repo |-> None, number |-> None]

\* The repository name os.getenv returns, as a number standing for it.
RepoName == 1

\* not x, for an environment variable: None and "" are falsy.
NotEnvNever(value) == FALSE
NotEnv(value) == value \in {"unset", "empty"}

\* not pull: an absent key, null and {} are falsy.
NotPull(pull) == pull.kind \in {"absent", "null", "empty"}

\* not number: an absent key, null and 0 are falsy; "0" is not.
NotNumber(number) ==
    \/ number.kind \in {"absent", "null"}
    \/ number.kind = "int" /\ number.value = 0

\* discover_pr_context
discover_pr_context(env) ==
    IF NotEnv(env.eventPath) THEN NonePair
    ELSE IF ~env.exists THEN NonePair
    ELSE IF env.payload.kind = "garbage" THEN NonePair
    ELSE IF env.payload.kind # "object" THEN Raised("AttributeError")
    ELSE IF NotPull(env.payload.pull) \/ NotEnv(env.repo) THEN NonePair
    ELSE IF env.payload.pull.kind # "object" THEN Raised("AttributeError")
    ELSE IF NotNumber(env.payload.pull.number) THEN NonePair
    ELSE IF env.payload.pull.number.kind = "word" THEN Raised("ValueError")
    ELSE Pair(IF env.repo = "unset" THEN None ELSE Some(RepoName),
              Some(env.payload.pull.number.value))

InitDiscover ==
    /\ dpc = "call"
    /\ din \in [eventPath : EnvValues, exists : BOOLEAN, payload : Payloads,
                repo : EnvValues]
    /\ dout = NonePair

IdleDiscover ==
    /\ dpc = "idle"
    /\ din = [eventPath |-> "unset", exists |-> FALSE,
              payload |-> [kind |-> "garbage",
                           pull |-> [kind |-> "absent",
                                     number |-> [kind |-> "absent", value |-> 0]]],
              repo |-> "unset"]
    /\ dout = NonePair

\* discover_pr_context() is called and returns or raises.
DiscoverCall ==
    /\ dpc = "call"
    /\ dout' = discover_pr_context(din)
    /\ dpc' = IF dout'.raised = "none" THEN "returned" ELSE "raised"
    /\ UNCHANGED din
    /\ UNCHANGED othersDiscover

IdleCalls == IdleRunCmd /\ IdleDiscover

(***************************************************************************)
(* Specifications                                                          *)
(***************************************************************************)

IdleState ==
    /\ stateFile = AbsentFile
    /\ stBase = AbsentFile
    /\ stHist = <<>>
    /\ stCalls = 0
    /\ stResult = [op |-> "none", ok |-> TRUE, map |-> TRUE, value |-> EmptyDict]
    /\ stSaved = NotSaved

IdleConc ==
    /\ cpc = [p \in Writers |-> "idle"]
    /\ clocal = [p \in Writers |-> EmptyDict]

\* Sequential calls on the state file.
NextState ==
    \/ \E u \in DictsOver(TestKeys) : UpdateStateCall(u)
    \/ \E s \in DictsOver(TestKeys) : SaveStateCall(s)
    \/ LoadStateCall

StateInit == InitState /\ IdleConc /\ IdleLoad /\ IdleMon /\ IdleGate /\ IdlePct /\ IdleCalls

SpecState == StateInit /\ [][NextState]_vars

\* Two writers in update_state at once.
NextConc ==
    \/ \E p \in Writers, v \in Values : ConcLoad(p, v)
    \/ \E p \in Writers : ConcOpen(p)
    \/ \E p \in Writers : ConcWrite(p)

ConcInit == InitConc /\ IdleLoad /\ IdleMon /\ IdleGate /\ IdlePct /\ IdleCalls

SpecConc == ConcInit /\ [][NextConc]_vars

\* One invocation of load_test.main.
InitLoadState ==
    /\ stateFile \in {GarbageText, Dumps([k \in {"a", "load_test"} |-> 1])}
    /\ stBase = stateFile
    /\ stHist = <<>>
    /\ stCalls = 0
    /\ stResult = [op |-> "none", ok |-> TRUE, map |-> TRUE, value |-> EmptyDict]
    /\ stSaved = NotSaved

NextLoad ==
    \/ LoadStart
    \/ \E out \in GetOutcomes : WarmupAttempt(out)
    \/ \E host \in HostSet : IssueRequest(host)
    \/ \E out \in GetOutcomes, latency \in Latencies : CompleteRequest(out, latency)
    \/ RunLoadReturn
    \/ WriteJson
    \/ WriteMarkdown
    \/ LoadUpdateState

LoadInit == InitLoad /\ InitLoadState /\ IdleConc /\ IdleMon /\ IdleGate /\ IdlePct /\ IdleCalls

SpecLoad == LoadInit /\ [][NextLoad]_vars

\* One invocation of monitor_resources.main.
InitMonState ==
    /\ stateFile \in {GarbageText,
                      Dumps([k \in {"a"} |-> 1]),
                      Dumps([k \in {"kubeconfig", "load_test"} |-> 1])}
    /\ stBase = stateFile
    /\ stHist = <<>>
    /\ stCalls = 0
    /\ stResult = [op |-> "none", ok |-> TRUE, map |-> TRUE, value |-> EmptyDict]
    /\ stSaved = NotSaved

NextMon ==
    \/ MonStart
    \/ \E outcome \in ProbeOutcomes : MonProbe(outcome)
    \/ \E outcome \in ProbeOutcomes, delay \in {0, ProbeTimeout} :
          PortForwardWait(outcome, delay)
    \/ \E outcome \in ProbeOutcomes : MonProbeAgain(outcome)
    \/ \E answers \in QueryRuns, cost \in {0, 1} : MonSample(answers, cost)
    \/ MonAfterSampling
    \/ MonWriteJson
    \/ MonWriteMarkdown
    \/ MonUpdateState
    \/ \E exitsInGrace \in BOOLEAN : MonFinally(exitsInGrace)
    \/ PortForwardDies

MonInit == InitMon /\ InitMonState /\ IdleConc /\ IdleLoad /\ IdleGate /\ IdlePct /\ IdleCalls

SpecMon == MonInit /\ [][NextMon]_vars

\* One invocation of check_health.main.
NextGate ==
    \/ GateStart
    \/ \E outcome \in RunOutcomes : GateNodes(outcome)
    \/ \E outcome \in RunOutcomes : GateWebhookPods(outcome)
    \/ \E outcome \in RunOutcomes : GateWebhookJobs(outcome)
    \/ \E outcome \in RunOutcomes : GateIngressController(outcome)
    \/ \E outcome \in RunOutcomes : GateDeployment(outcome)
    \/ \E outcome \in QueryOutcomes : GateEndpoints(outcome)
    \/ \E outcome \in QueryOutcomes : GateBackends(outcome)
    \/ \E outcome \in RunOutcomes : GatePrometheusRollout(outcome)
    \/ \E spawns \in BOOLEAN : GateConnectivityStart(spawns)
    \/ \E outcome \in HttpOutcomes, exitsInGrace \in BOOLEAN :
          GatePrometheusProbe(outcome, exitsInGrace)
    \/ \E outcome \in HttpOutcomes, exitsInGrace \in BOOLEAN :
          GatePrometheusTargets(outcome, exitsInGrace)
    \/ GatePortForwardDies

GateInit == InitGate /\ InitMonState /\ IdleConc /\ IdleLoad /\ IdleMon /\ IdlePct /\ IdleCalls

SpecGate == GateInit /\ [][NextGate]_vars

\* The same invocation when every external call returns or hits its
\* timeout: the process always takes its next step.
SpecGateLive == GateInit /\ [][NextGate]_vars /\ WF_vars(NextGate)

\* One call of percentile.
NextPct ==
    \/ PercentileCall
    \/ \E attempts \in {Len(pin), Len(pin) + 1} : ComputeMetricsCall(attempts)

PctInit ==
    InitPct /\ IdleState /\ IdleConc /\ IdleLoad /\ IdleMon /\ IdleGate /\ IdleCalls

SpecPct == PctInit /\ [][NextPct]_vars

(***************************************************************************)
(* The pipeline: the gate and the load generator as two steps of the       *)
(* external orchestrator                                                   *)
(***************************************************************************)

\* Bound on --requests in the pipeline specification.
PipelineRequests == 2

\* The orchestrator runs its steps in sequence and stops at the first step
\* that ends with a non-zero exit code.
OrchestratorProceedsAlways(code) == TRUE
OrchestratorProceeds(code) == code = 0

\* The orchestrator starts load_test.py once check_health.py has ended.
OrchestratorStartsLoad(requests, attempts) ==
    /\ gpc = "done"
    /\ lpc = "idle"
    /\ OrchestratorProceeds(gexit)
    /\ lpc' = "start"
    /\ totalRequests' = requests
    /\ warmupAttempts' = attempts
    /\ UNCHANGED <<wIdx, wAttempt, wReqs, wGot200, iter, cur, lastResp, stats,
                   issued, results, artifacts, lexit>>
    /\ UNCHANGED stateVars
    /\ UNCHANGED othersLoad

NextPipeline ==
    \/ NextGate
    \/ \E requests \in 0..PipelineRequests, attempts \in 0..1 :
          OrchestratorStartsLoad(requests, attempts)
    \/ NextLoad

PipelineInit ==
    InitGate /\ InitMonState /\ IdleConc /\ IdleLoad /\ IdleMon /\ IdlePct /\ IdleCalls

SpecPipeline == PipelineInit /\ [][NextPipeline]_vars

\* One call of run_cmd.
NextRunCmd == RunCmdCall

RunCmdInit ==
    InitRunCmd /\ IdleDiscover /\ IdleState /\ IdleConc /\ IdleLoad /\ IdleMon
        /\ IdleGate /\ IdlePct

SpecRunCmd == RunCmdInit /\ [][NextRunCmd]_vars

\* One call of discover_pr_context.
NextDiscover == DiscoverCall

DiscoverInit ==
    InitDiscover /\ IdleRunCmd /\ IdleState /\ IdleConc /\ IdleLoad /\ IdleMon
        /\ IdleGate /\ IdlePct

SpecDiscover == DiscoverInit /\ [][NextDiscover]_vars

(***************************************************************************)
(* The gate and the resource monitor as two steps of the orchestrator:     *)
(* the two places that run and stop a kubectl port-forward                 *)
(***************************************************************************)

\* Bound on --duration in this specification.
TunnelDuration == 1

\* The orchestrator starts monitor_resources.py once check_health.py has
\* ended.
OrchestratorStartsMonitor(env) ==
    /\ gpc = "done"
    /\ mpc = "idle"
    /\ OrchestratorProceeds(gexit)
    /\ mpc' = "start"
    /\ menv' = env
    /\ UNCHANGED <<mstate, proc, pfHandle, pfWait, spawned, signals, mNow,
                   mqueries, probeOk, samples, mstats, martifacts, mret, mexit>>
    /\ UNCHANGED stateVars
    /\ UNCHANGED othersMon

NextTunnels ==
    \/ NextGate
    \/ \E env \in [kubectl : {TRUE}, kubeconfigExists : {TRUE}, localUrl : {TRUE},
                   duration : 0..TunnelDuration, interval : {1}] :
          OrchestratorStartsMonitor(env)
    \/ NextMon

TunnelsInit ==
    InitGate /\ InitMonState /\ IdleConc /\ IdleLoad /\ IdleMon /\ IdlePct /\ IdleCalls

SpecTunnels == TunnelsInit /\ [][NextTunnels]_vars

\* One invocation of either script that writes reports: load_test.main or
\* monitor_resources.main.
NextPhases ==
    \/ NextLoad
    \/ NextMon

PhasesInit ==
    /\ \/ InitLoad /\ InitLoadState /\ IdleMon
       \/ InitMon /\ InitMonState /\ IdleLoad
    /\ IdleConc /\ IdleGate /\ IdlePct /\ IdleCalls

SpecPhases == PhasesInit /\ [][NextPhases]_vars
\* C5: after any sequence of update_state calls, the loaded state maps every
\* key present before them or written by one of them to the value of the
\* latest update that touched it, and to its earlier value if none did.
LatestTouch(k) ==
    IF \E i \in DOMAIN stHist : k \in DOMAIN stHist[i]
    THEN LET i == CHOOSE n \in DOMAIN stHist :
                    /\ k \in DOMAIN stHist[n]
                    /\ \A m \in DOMAIN stHist : k \in DOMAIN stHist[m] => m <= n
         IN stHist[i][k]
    ELSE load_state(stBase).value[k]

TouchedOrPresent ==
    DOMAIN load_state(stBase).value
        \cup UNION {DOMAIN stHist[i] : i \in DOMAIN stHist}

C5_NonDestructiveMerge ==
    load_state(stBase).ok =>
        /\ load_state(stateFile).ok
        /\ DOMAIN load_state(stateFile).value = TouchedOrPresent
        /\ \A k \in TouchedOrPresent : load_state(stateFile).value[k] = LatestTouch(k)

\* C5 witness: {a:1} was persisted, {b:2} was merged in, both are loaded.
C5_Witness ==
    /\ load_state(stBase).ok
    /\ load_state(stBase).value = [k \in {"a"} |-> 1]
    /\ stHist = << [k \in {"b"} |-> 2] >>
    /\ load_state(stateFile).value = [k \in {"a", "b"} |-> IF k = "a" THEN 1 ELSE 2]

\* C6: once both concurrent writers have finished update_state, the persisted
\* state holds both the load_test key and the resource_metrics key.
C6_BothKeysSurvive ==
    (\A p \in Writers : cpc[p] = "done") =>
        /\ load_state(stateFile).ok
        /\ {"load_test", "resource_metrics"} \subseteq DOMAIN load_state(stateFile).value

\* C6 witness: both writers finished and both keys are there.
C6_Witness ==
    /\ \A p \in Writers : cpc[p] = "done"
    /\ stBase = AbsentFile
    /\ load_state(stateFile).ok
    /\ DOMAIN load_state(stateFile).value = {"load_test", "resource_metrics"}

(***************************************************************************)
(* Claims about the load generator                                         *)
(***************************************************************************)

\* run_load has returned (its results exist).
RunLoadReturned == results # NoResults

\* C3: if a target never returns HTTP 200 within its warm-up attempts, the
\* run aborts with a failure and no steady-state request is ever issued.
C3_WarmupFailureAborts ==
    (/\ lpc # "start"
     /\ \E h \in HostSet : wReqs[h] = warmupAttempts /\ ~wGot200[h])
        => /\ lpc = "crashed"
           /\ lexit = 1
           /\ issued = 0
           /\ \A h \in HostSet : stats[h].attempts = 0

\* C3 witness: the first host warmed up, the second used up all its attempts
\* without a 200, and the run is over.
C3_Witness ==
    /\ warmupAttempts = MaxWarmup
    /\ wGot200[HOSTS[1]]
    /\ ~wGot200[HOSTS[2]]
    /\ wReqs[HOSTS[2]] = warmupAttempts
    /\ lpc = "crashed"

\* C7: when run_load returns, exactly totalRequests steady-state requests were
\* issued: the per-host attempt counts add up to the budget and so does the
\* combined total_requests.
C7_ExactBudget ==
    RunLoadReturned =>
        /\ issued = totalRequests
        /\ stats[HOSTS[1]].attempts + stats[HOSTS[2]].attempts = totalRequests
        /\ results.combined.total_requests = totalRequests

\* C7 witness: a full budget spent unevenly over the hosts, with a failure.
C7_Witness ==
    /\ RunLoadReturned
    /\ totalRequests = MaxRequests
    /\ stats[HOSTS[1]].attempts = 1
    /\ stats[HOSTS[2]].failures >= 1
    /\ stats[HOSTS[2]].successes >= 1

\* C8: a transport failure of a steady-state request is recorded as one
\* failure of the chosen host with its latency, the loop goes on to its next
\* iteration, the run never dies inside the loop, and run_load returns only
\* with the whole budget issued.
C8_TransportFailureIsData ==
    /\ [][(lpc = "await" /\ lpc' # "await"
             /\ lastResp'.kind \in {"Timeout", "ConnectionError"})
            => /\ lpc' = "load"
               /\ iter' = iter
               /\ stats'[cur].failures = stats[cur].failures + 1
               /\ stats'[cur].successes = stats[cur].successes
               /\ stats'[cur].attempts = stats[cur].attempts
               /\ stats'[cur].latencies
                     = Append(stats[cur].latencies, lastResp'.latency)]_vars
    /\ [](lpc = "crashed" => (issued = 0 \/ RunLoadReturned))
    /\ [](RunLoadReturned => issued = totalRequests)

\* C8 witness: a request is in flight after a connection failure was recorded.
C8_Witness ==
    /\ lpc = "await"
    /\ lastResp.kind = "ConnectionError"
    /\ issued >= 2
    /\ stats[HOSTS[1]].failures + stats[HOSTS[2]].failures >= 1

\* The substring a host's responses must carry: "foo" or "bar".
ExpectedOf(h) == IF h = FooHost THEN <<"f", "o", "o">> ELSE <<"b", "a", "r">>

HasSubstring(text, sub) ==
    \E i \in 1..Len(text) : \E j \in i..Len(text) : SubSeq(text, i, j) = sub

\* C9: a steady-state request counts as a success exactly when the response
\* has status 200 and its body contains the chosen host's expected substring;
\* otherwise it counts as a failure of the chosen host.
C9_SuccessIffStatusAndBody ==
    [][(lpc = "await" /\ lpc' = "load")
         => LET good == /\ lastResp'.kind = "response"
                        /\ lastResp'.status = 200
                        /\ HasSubstring(lastResp'.body, ExpectedOf(cur))
            IN /\ good => /\ stats'[cur].successes = stats[cur].successes + 1
                          /\ stats'[cur].failures = stats[cur].failures
               /\ ~good => /\ stats'[cur].successes = stats[cur].successes
                           /\ stats'[cur].failures = stats[cur].failures + 1]_vars

\* C9 witness: a 200 answered by the wrong backend was counted as a failure of
\* the chosen host.
C9_Witness ==
    /\ lpc = "load"
    /\ cur = FooHost
    /\ lastResp.kind = "response"
    /\ lastResp.status = 200
    /\ lastResp.body = <<"x", "b", "a", "r">>
    /\ stats[FooHost].failures = 1
    /\ stats[FooHost].successes = 0
    /\ stats[FooHost].attempts = 1

\* C10: at every iteration boundary and after the loop, each host has
\* attempts = successes + failures = number of latencies, one outcome per
\* issued request; and a request changes the statistics of its host only.
C10_OneOutcomePerRequest ==
    /\ []((lpc = "load" \/ RunLoadReturned) =>
            /\ \A h \in HostSet :
                  /\ stats[h].attempts = stats[h].successes + stats[h].failures
                  /\ stats[h].attempts = Len(stats[h].latencies)
            /\ Len(stats[HOSTS[1]].latencies) + Len(stats[HOSTS[2]].latencies)
                  = issued)
    /\ [][\A h \in HostSet :
            (lpc \in {"load", "await"} /\ h # cur') => stats'[h] = stats[h]]_vars

\* C10 witness: a boundary at which both hosts have outcomes, one a failure.
C10_Witness ==
    /\ lpc = "load"
    /\ stats[FooHost].attempts = 2
    /\ stats[FooHost].failures = 1
    /\ stats[BarHost].successes = 1

(***************************************************************************)
(* Claims about the resource monitor                                       *)
(***************************************************************************)

\* C4: in every terminal state of a monitor_resources invocation, every
\* port-forward process it spawned has been terminated.
C4_TunnelTerminatedOnEveryExit ==
    (mpc = "exited" /\ spawned > 0) => proc \in {"terminated", "killed", "exited"}

\* C4 witness: an invocation that spawned the tunnel, sampled through it and
\* returned with the process terminated.
C4_Witness ==
    /\ mpc = "exited"
    /\ mexit = 0
    /\ spawned = 1
    /\ proc = "terminated"

(***************************************************************************)
(* Claims about the readiness gate                                         *)
(***************************************************************************)

\* The check an error message names, by its text and its subject.
PhaseNamedBy(msg) ==
    IF msg.subject = "Kubernetes nodes to be Ready" THEN "nodes"
    ELSE IF msg.subject = "ingress-nginx controller pod to be Ready"
    THEN "ingress_controller"
    ELSE IF msg.text = "Deployment not ready" /\ msg.subject \in {"echo-foo", "echo-bar"}
    THEN "deployments"
    ELSE IF msg.text = "Endpoint check failed for"
            /\ msg.subject \in {"echo-foo", "echo-bar"}
    THEN "endpoints"
    ELSE IF msg.text = "Ingress backend verification failed" THEN "ingress_backends"
    ELSE IF msg.subject = "Prometheus deployment to be Ready" THEN "prometheus_rollout"
    ELSE IF msg.subject = "Prometheus connectivity" THEN "prometheus_connectivity"
    ELSE "none"

PhaseIndex(phase) == CHOOSE i \in DOMAIN Phases : Phases[i] = phase

\* C1: when a fatal check fails or does not converge, no later check is
\* started, the gate ends with exit code 1, and the failure it reports names
\* that check and no other.
C1_FatalFailureAborts ==
    gfailed # "none" =>
        /\ gpc = "done"
        /\ gexit = 1
        /\ gstarted = SubSeq(Phases, 1, PhaseIndex(gfailed))
        /\ PhaseNamedBy(greport) = gfailed

\* C1 witness: the second deployment's rollout did not converge; the gate
\* stopped there.
C1_Witness ==
    /\ gfailed = "deployments"
    /\ greport = Message("Deployment not ready", "echo-bar")
    /\ gstarted = <<"nodes", "webhooks", "ingress_controller", "deployments">>
    /\ gexit = 1

WebhookFailed == \E i \in DOMAIN gwebhook : gwebhook[i] # "ok"

\* C2: however the advisory webhook check fails, the gate does not abort on
\* it: the ingress-controller check comes next, an exit code 1 is always the
\* failure of a later fatal check, and a gate that ends with 0 has started
\* every check.
C2_AdvisoryFailureContinues ==
    (WebhookFailed /\ gpc # "webhook_jobs") =>
        /\ gpc = "ingress_controller" \/ \E i \in DOMAIN gstarted : gstarted[i] = "ingress_controller"
        /\ gexit = 1 => /\ gfailed # "none"
                        /\ PhaseIndex(gfailed) > PhaseIndex("webhooks")
                        /\ PhaseNamedBy(greport) = gfailed
        /\ gexit = 0 => gstarted = Phases

\* C2 witness: the webhook wait hit the subprocess timeout and the gate still
\* ended with exit code 0.
C2_Witness ==
    /\ gwebhook = <<"TimeoutExpired">>
    /\ gexit = 0
    /\ gstarted = Phases

(***************************************************************************)
(* Claims about the reports                                                *)
(***************************************************************************)

\* C11: for every result run_load produces, a host that received no request
\* has metrics with a request count and a failure count of 0, and summarise
\* renders the report without raising.
C11_ZeroAttemptHostRenders ==
    RunLoadReturned =>
        /\ \A h \in HostSet :
              stats[h].attempts = 0 =>
                 /\ "requests" \in DOMAIN results.hosts[h]
                 /\ results.hosts[h].requests = 0
                 /\ "failures" \in DOMAIN results.hosts[h]
                 /\ results.hosts[h].failures = 0
        /\ summarise(results).ok

\* C12: in every terminal state of a load_test invocation and of a
\* monitor_resources invocation, the JSON report has been written if and
\* only if the Markdown report has been written.
C12_ReportsWrittenAsPair ==
    /\ lpc \in {"done", "crashed"} =>
          ("load-test-results.json" \in artifacts
              <=> "load-test-results.md" \in artifacts)
    /\ mpc = "exited" =>
          ("resource-metrics.json" \in martifacts
              <=> "resource-metrics.md" \in martifacts)

(***************************************************************************)
(* Claims about the statistics of the samples                              *)
(***************************************************************************)

\* The samples that carry a field, by their position.
Carriers(key) == {i \in DOMAIN samples : key \in DOMAIN samples[i]}

RECURSIVE SumCarried(_, _)
SumCarried(key, idx) ==
    IF idx = {} THEN 0
    ELSE LET i == CHOOSE j \in idx : TRUE
         IN samples[i][key] + SumCarried(key, idx \ {i})

\* Equality of two rationals.
RatEq(a, b) == a.num * b.den = b.num * a.den

\* C13: the statistics have an entry for a tracked field only if at least
\* one sample carried that field.
C13_EntryOnlyForCarriedField ==
    \A key \in DOMAIN mstats : Carriers(key) # {}

\* C14: every field in the statistics, running_pods included, is averaged
\* over exactly the samples that carry it: a sample without the field is not
\* counted as a zero, a sample with a true zero is counted.
C14_AverageOverCarriersOnly ==
    \A key \in DOMAIN mstats :
        Carriers(key) # {} =>
            RatEq(mstats[key].avg,
                  Rat(SumCarried(key, Carriers(key)), Cardinality(Carriers(key))))

(***************************************************************************)
(* Claims about the sampling of the resource monitor                       *)
(***************************************************************************)

\* Every collect_metrics so far took no time: the clock has only advanced by
\* the sleeps.
ZeroCostSampling == mNow = Len(samples) * menv.interval

CeilDiv(a, b) == (a + b - 1) \div b

\* C15: when the sampling step takes no time, monitor_resources with a
\* positive duration D and interval I samples at t = 0, I, 2I, ..., never at
\* or after t = D, and returns exactly ceil(D / I) samples.
C15_SamplesAtMultiplesOfInterval ==
    (ZeroCostSampling /\ menv.duration > 0) =>
        /\ \A i \in DOMAIN samples :
              /\ samples[i].timestamp = (i - 1) * menv.interval
              /\ samples[i].timestamp < menv.duration
        /\ mpc = "write_json" =>
              Len(samples) = CeilDiv(menv.duration, menv.interval)

\* C15 witness: three samples for a duration of three intervals.
C15_Witness ==
    /\ mpc = "write_json"
    /\ ZeroCostSampling
    /\ menv.duration = 3
    /\ menv.interval = 1
    /\ Len(samples) = 3

\* The ways a query fails that collect_metrics absorbs.
AbsorbedFailures ==
    {"Timeout", "ConnectionError", "HTTPError", "error_status", "empty"}

\* C16: whichever of the five queries fail (transport error, error status,
\* empty result), all five are issued, the sample is recorded with exactly
\* the fields whose queries returned data (a failed query's field is absent,
\* not zero), and the run is not aborted.
C16_FailedQueryLeavesFieldAbsent ==
    (/\ mqueries # <<>>
     /\ \A i \in DOMAIN mqueries :
           mqueries[i].kind \in AbsorbedFailures \cup {"data"})
        => /\ [i \in DOMAIN mqueries |-> mqueries[i].field] = QueryOrder
           /\ samples # <<>>
           /\ LET s == samples[Len(samples)]
                  answered == {i \in DOMAIN mqueries : mqueries[i].kind = "data"}
              IN /\ DOMAIN s \ {"timestamp"} = {mqueries[i].field : i \in answered}
                 /\ \A i \in answered : s[mqueries[i].field] = mqueries[i].value
           /\ mret # 1

\* C16 witness: a second sample in which only the CPU query returned data (a
\* true zero) and the four others failed in four ways; the run ended well.
C16_Witness ==
    /\ Len(samples) = 2
    /\ DOMAIN samples[2] = {"cpu_cores", "timestamp"}
    /\ samples[2].cpu_cores = 0
    /\ mqueries[2].kind = "HTTPError"
    /\ mqueries[5].kind = "ConnectionError"
    /\ mexit = 0

\* C17: no metric query is issued before a reachability probe has answered
\* healthy; an invocation that never got such an answer, directly or through
\* the port-forward within its bounded wait, ends with a non-zero exit code
\* and no sample.
C17_NoQueryBeforeReachable ==
    /\ (mpc = "sampling" \/ mqueries # <<>> \/ samples # <<>>) => probeOk
    /\ pfWait < PortForwardDeadline + ProbeTimeout + ProbeSleep
    /\ (mpc = "exited" /\ ~probeOk) =>
          /\ mexit > 0
          /\ samples = <<>>
          /\ mqueries = <<>>

\* C17 witness: the direct probe failed, the port-forward was spawned and
\* never answered within its deadline; exit code 1, nothing sampled.
C17_Witness ==
    /\ mpc = "exited"
    /\ ~probeOk
    /\ spawned = 1
    /\ pfWait >= PortForwardDeadline
    /\ mexit = 1
    /\ samples = <<>>

(***************************************************************************)
(* Claims about percentile                                                 *)
(***************************************************************************)

PercentileReturned == ppc = "returned"

InputValues == {pin[i] : i \in DOMAIN pin}

\* The i-th smallest of the latencies passed (i from 1), by rank.
RankedAt(i) ==
    CHOOSE v \in InputValues :
        /\ Cardinality({j \in DOMAIN pin : pin[j] <= v}) >= i
        /\ \A w \in InputValues :
              Cardinality({j \in DOMAIN pin : pin[j] <= w}) >= i => v <= w

\* C18: for every non-empty latency sequence, in any order, percentile at 0
\* is its minimum and percentile at 1 is its maximum.
C18_ExtremesAreMinAndMax ==
    (PercentileReturned /\ pin # <<>>) =>
        /\ ppct = 0 =>
              /\ \A i \in DOMAIN pin : pout.num <= pin[i] * pout.den
              /\ \E i \in DOMAIN pin : pout.num = pin[i] * pout.den
        /\ ppct = 100 =>
              /\ \A i \in DOMAIN pin : pout.num >= pin[i] * pout.den
              /\ \E i \in DOMAIN pin : pout.num = pin[i] * pout.den

\* C18 witness: the maximum of an unsorted sequence.
C18_Witness ==
    /\ PercentileReturned
    /\ pin = <<1, 2, 0>>
    /\ ppct = 100
    /\ pout = Rat(2, 1)

\* C19: percentile of the empty sequence is 0 for every pct, and percentile
\* of a one-element sequence is that element for every pct in [0, 1].
C19_EmptyAndSingleton ==
    PercentileReturned =>
        /\ pin = <<>> => pout.num = 0
        /\ Len(pin) = 1 => pout.num = pin[1] * pout.den

\* C19 witness: the median of a single latency.
C19_Witness ==
    /\ PercentileReturned
    /\ pin = <<2>>
    /\ ppct = 50
    /\ pout = Rat(2, 1)

\* C20: for a non-empty sequence of length n, with k = (n-1)*pct,
\* f = floor(k) and c = min(f+1, n-1), percentile is the f-th smallest value
\* if f = c, and otherwise the f-th smallest weighted by (c-k) plus the c-th
\* smallest weighted by (k-f); it lies between the two and does not depend on
\* the order of the input.
C20_LinearInterpolation ==
    (PercentileReturned /\ pin # <<>>) =>
        LET n == Len(pin)
            k == FloatMul(Rat(n - 1, 1), Literal(ppct))
            f == IntOf(k)
            c == IF f + 1 < n - 1 THEN f + 1 ELSE n - 1
            lo == Rat(RankedAt(f + 1), 1)
            hi == Rat(RankedAt(c + 1), 1)
        IN /\ IF f = c THEN RatEq(pout, lo)
              ELSE RatEq(pout,
                         FloatAdd(FloatMul(lo, FloatSub(Rat(c, 1), k)),
                                  FloatMul(hi, FloatSub(k, Rat(f, 1)))))
           /\ lo.num * pout.den <= pout.num
           /\ pout.num <= hi.num * pout.den

(***************************************************************************)
(* Claims about compute_metrics                                            *)
(***************************************************************************)

\* The groups run_load aggregates: each host and the two together, with the
\* successes and attempts counted in stats and the metrics returned.
Groups ==
    {[metrics |-> results.hosts[h], successes |-> stats[h].successes,
      attempts |-> stats[h].attempts] : h \in HostSet}
        \cup {[metrics |-> results.combined,
               successes |-> stats[HOSTS[1]].successes + stats[HOSTS[2]].successes,
               attempts |-> stats[HOSTS[1]].attempts + stats[HOSTS[2]].attempts]}

\* C21: for a group with n > 0 attempts and k successes, success_rate is
\* exactly k/n, per host and for the combined group.
C21_SuccessRateIsSuccessesOverAttempts ==
    RunLoadReturned =>
        \A g \in Groups :
            g.attempts > 0 =>
                /\ g.metrics.success_rate.den # 0
                /\ g.metrics.success_rate.num * g.attempts
                      = g.successes * g.metrics.success_rate.den

\* C21 witness: one host with one success out of two attempts, the other
\* with one failed attempt: 1/2 and 0/1 per host, 1/3 combined.
C21_Witness ==
    /\ RunLoadReturned
    /\ stats[HOSTS[1]].attempts = 2
    /\ stats[HOSTS[1]].successes = 1
    /\ stats[HOSTS[2]].attempts = 1
    /\ stats[HOSTS[2]].successes = 0
    /\ results.combined.success_rate = Rat(1, 3)

LatencyFields == {"avg", "p50", "p90", "p95", "p99", "max"}

\* C22: a group with no attempts has success_rate 0, rps 0 and every latency
\* field 0, whatever the duration; a group with attempts and a duration of 0
\* has rps 0.
C22_ZeroAttemptsAndZeroDuration ==
    RunLoadReturned =>
        \A g \in Groups :
            /\ g.attempts = 0 =>
                  /\ g.metrics.success_rate.num = 0
                  /\ g.metrics.rps.num = 0
                  /\ \A f \in LatencyFields : g.metrics[f].num = 0
            /\ (g.attempts > 0 /\ results.combined.duration = 0) =>
                  g.metrics.rps.num = 0

\* C22 witness: every request went to one host and took no measurable time;
\* the other host has no attempts.
C22_Witness ==
    /\ RunLoadReturned
    /\ stats[HOSTS[1]].attempts = 0
    /\ stats[HOSTS[2]].attempts = MaxRequests
    /\ results.combined.duration = 0
    /\ results.hosts[HOSTS[1]].rps = Zero
    /\ results.hosts[HOSTS[2]].rps = Zero

\* C23: when the state file does not exist, load_state returns the empty map
\* without an error and leaves the file absent; update_state(u) then succeeds
\* and creates the file, and the next load_state returns exactly u.
C23_AbsentFileIsEmptyMap ==
    stBase = AbsentFile =>
        /\ (stHist = <<>> /\ stResult.op = "load_state") =>
              /\ stResult.ok
              /\ stResult.map
              /\ stResult.value = EmptyDict
              /\ stateFile = AbsentFile
        /\ stResult.op = "update_state" => stResult.ok
        /\ Len(stHist) = 1 =>
              /\ stateFile.kind = "object"
              /\ stResult.op = "load_state" =>
                    /\ stResult.ok
                    /\ stResult.map
                    /\ stResult.value = stHist[1]

\* C23 witness: no file, update_state({a: 1, b: 2}), and the load after it
\* returned that map.
C23_Witness ==
    /\ stBase = AbsentFile
    /\ stHist = << [k \in {"a", "b"} |-> IF k = "a" THEN 1 ELSE 2] >>
    /\ stResult.op = "load_state"
    /\ stResult.ok
    /\ stResult.value = [k \in {"a", "b"} |-> IF k = "a" THEN 1 ELSE 2]

\* A state file that exists but does not hold a JSON object.
Malformed(file) == file.kind \in {"empty", "garbage", "array"}

\* C24: when the state file exists but is not parseable as a JSON object,
\* load_state and update_state end with an error, and update_state leaves
\* the file as it was.
C24_MalformedStateIsFatal ==
    Malformed(stBase) =>
        /\ stateFile = stBase
        /\ stResult.op \in {"load_state", "update_state"} => ~stResult.ok

C26_StrictlySequentialGate ==
    /\ gstarted = SubSeq(Phases, 1, Len(gstarted))
    /\ gfailed # "none" =>
          /\ gstarted # <<>>
          /\ gstarted[Len(gstarted)] = gfailed
          /\ gpc = "done"
          /\ gexit # 0
          /\ gexit # -1
    /\ gexit = 0 =>
          /\ gpc = "done"
          /\ gstarted = Phases
          /\ gfailed = "none"
    /\ gpc = "done" => gexit \in {0, 1}

\* C26 witness: every check passed, the webhook waits included, and the gate
\* ended with exit code 0.
C26_Witness ==
    /\ gexit = 0
    /\ gstarted = Phases
    /\ gfailed = "none"
    /\ gwebhook = <<"ok", "ok">>
    /\ genv.retries = 2

\* The queries of a gate that fails at no query, in order.
QueryPlan ==
    <<[check |-> "endpoints", subject |-> "echo-foo"],
      [check |-> "endpoints", subject |-> "echo-bar"],
      [check |-> "ingress_backends", subject |-> "Ingress"]>>

\* C30: the endpoint check queries each service once and the backend check
\* queries once, in that order and never again; a query that prints nothing
\* or fails is the last query made, and the gate has then ended with exit
\* code 1 and a report naming that check and service; a gate that ends with
\* exit code 0 has made all three queries.
C30_QueryChecksAreSingleShot ==
    /\ Len(gqueries) <= Len(QueryPlan)
    /\ \A i \in DOMAIN gqueries :
          /\ gqueries[i].check = QueryPlan[i].check
          /\ gqueries[i].subject = QueryPlan[i].subject
          /\ gqueries[i].outcome # "found" =>
                /\ i = Len(gqueries)
                /\ gpc = "done"
                /\ gexit = 1
                /\ PhaseNamedBy(greport) = gqueries[i].check
                /\ gqueries[i].check = "endpoints" => greport.subject = gqueries[i].subject
    /\ gexit = 0 => Len(gqueries) = Len(QueryPlan)

\* C30 witness: echo-foo has endpoints, echo-bar has none; the gate stopped
\* after these two queries.
C30_Witness ==
    /\ Len(gqueries) = 2
    /\ gqueries[1].outcome = "found"
    /\ gqueries[2] = [check |-> "endpoints", subject |-> "echo-bar", outcome |-> "empty"]
    /\ greport = Message("Endpoint check failed for", "echo-bar")
    /\ gexit = 1

\* The load generator has been started or has issued a request.
LoadGeneratorActed ==
    \/ lpc # "idle"
    \/ issued > 0
    \/ \E h \in HostSet : wReqs[h] > 0

\* C27: the load generator issues no warm-up or steady-state request, and is
\* not even started, unless the readiness gate has ended with exit code 0.
C27_NoLoadBeforeGatePassed ==
    LoadGeneratorActed =>
        /\ gpc = "done"
        /\ gexit = 0
        /\ gfailed = "none"

\* C27 witness: the gate passed, and the load generator then warmed up both
\* hosts and issued a steady-state request.
C27_Witness ==
    /\ gexit = 0
    /\ \A h \in HostSet : wReqs[h] > 0
    /\ issued > 0

\* C28: for a command that was started, run_cmd with check=True raises
\* CommandError exactly when the exit status is non-zero and otherwise
\* returns a CommandResult with returncode 0; with check=False it raises
\* nothing and returns a CommandResult carrying the command's exit status.
C28_CheckDecidesRaise ==
    (rpc # "call" /\ rin.completed.started) =>
        /\ (rin.check /\ rin.completed.returncode # 0) =>
              /\ rpc = "raised"
              /\ rout.raised = "CommandError"
        /\ (rin.check /\ rin.completed.returncode = 0) =>
              /\ rpc = "returned"
              /\ rout.raised = "none"
              /\ rout.returncode = 0
        /\ ~rin.check =>
              /\ rpc = "returned"
              /\ rout.raised = "none"
              /\ rout.returncode = rin.completed.returncode

\* C28 witness: check=False, the command exited with status 1 after printing
\* " t"; run_cmd returned returncode 1 and the stripped output.
C28_Witness ==
    /\ rpc = "returned"
    /\ ~rin.check
    /\ rin.capture_output
    /\ rin.completed.returncode = 1
    /\ rin.completed.stdout = <<" ", "t">>
    /\ rout.returncode = 1
    /\ rout.stdout = <<"t">>

\* The event file, where it is read, holds what GitHub writes or a broken
\* copy of it: text that is not JSON, or an object whose pull_request (if
\* any) is null or an object and whose number (if any) is null, an integer
\* or a string of digits.
EventShaped(env) ==
    /\ env.payload.kind \in {"garbage", "object"}
    /\ env.payload.pull.kind # "scalar"
    /\ env.payload.pull.number.kind # "word"

\* One of the things discover_pr_context needs is missing.
ContextMissing(env) ==
    \/ env.eventPath = "unset"
    \/ ~env.exists
    \/ env.payload.kind = "garbage"
    \/ env.payload.pull.kind \in {"absent", "null"}
    \/ env.payload.pull.number.kind \in {"absent", "null"}
    \/ env.repo = "unset"

WarmupFailedFor(h) ==
    /\ lpc = "crashed"
    /\ h = HOSTS[wIdx]
    /\ ~wGot200[h]

\* The warm-up of host h is still going on.
WarmingUp(h) == lpc = "warmup" /\ h = HOSTS[wIdx]

\* C31: warmup issues at most N requests to its host; once a request has
\* returned 200 the warm-up of that host is over and no further warm-up
\* request goes to it; a warm-up fails only after exactly N requests none of
\* which returned 200, and with N = 0 it fails without any request.
C31_WarmupBoundedAndStopsAt200 ==
    /\ [](\A h \in HostSet :
            /\ wReqs[h] <= warmupAttempts
            /\ wGot200[h] => (~WarmingUp(h) /\ ~WarmupFailedFor(h))
            /\ WarmupFailedFor(h) => (wReqs[h] = warmupAttempts /\ issued = 0)
            /\ (wReqs[h] = warmupAttempts /\ ~wGot200[h] /\ lpc # "start")
                  => lpc = "crashed"
            /\ (warmupAttempts = 0 /\ lpc # "start")
                  => (lpc = "crashed" /\ wReqs[h] = 0))
    /\ [][\A h \in HostSet : wGot200[h] => wReqs'[h] = wReqs[h]]_vars

\* C31 witness: with two attempts allowed, the first host answered 200 on
\* its first request and got no second one; the second host's warm-up is on.
C31_Witness ==
    /\ warmupAttempts = 2
    /\ wGot200[HOSTS[1]]
    /\ wReqs[HOSTS[1]] = 1
    /\ wReqs[HOSTS[2]] = 1
    /\ WarmingUp(HOSTS[2])

\* C32: one invocation of monitor_resources starts at most one port-forward
\* process; it starts it only at the direct probe and only when that probe
\* did not find Prometheus ready; a direct probe that finds it ready goes
\* on to the sampling with no process started, and none is started later.
C32_AtMostOneTunnelAfterFailedProbe ==
    /\ [](/\ spawned <= 1
          /\ mpc \in {"start", "probe"} => (spawned = 0 /\ ~probeOk /\ proc = "none")
          /\ spawned = 0 => proc = "none")
    /\ [][/\ spawned' # spawned =>
                /\ mpc = "probe"
                /\ spawned = 0
                /\ spawned' = 1
                /\ ~probeOk'
          /\ (mpc = "probe" /\ probeOk') =>
                /\ mpc' = "sampling"
                /\ spawned' = 0
                /\ proc' = "none"]_vars

\* C32 witness: the direct probe failed, one process was started, and the
\* samples were taken through it.
C32_Witness ==
    /\ spawned = 1
    /\ pfHandle
    /\ probeOk
    /\ samples # <<>>
    /\ mpc = "sampling"

\* C33: the gate's port-forward process runs only while
\* verify_prometheus_connectivity is executing; on every way out of it
\* (success, a failed probe after the last retry, a failed scrape-targets
\* query, another exception) the process has been sent a terminate request
\* and is no longer running.
C33_GateTunnelTerminatedOnEveryExit ==
    /\ gproc = "running" => gpc \in {"prometheus_probe", "prometheus_targets"}
    /\ (gpc = "done" /\ gproc # "none") =>
          /\ gproc \in {"terminated", "killed", "exited"}
          /\ gsignals # <<>>
          /\ gsignals[1] = "terminate"
    /\ gproc = "none" => gsignals = <<>>

\* C33 witness: both probes allowed failed, the function raised, and the
\* process had been terminated by then.
C33_Witness ==
    /\ gpc = "done"
    /\ gexit = 1
    /\ gfailed = "prometheus_connectivity"
    /\ genv.retries = 2
    /\ gattempt = 1
    /\ gproc = "terminated"
    /\ gsignals = <<"terminate">>

\* C34: in the monitor and in the gate alike, the signals sent to the
\* port-forward process are a terminate request alone or a terminate
\* request followed by a kill; the kill is sent only to a process that was
\* still running after the grace period that follows the terminate request,
\* never to one that exited within it or on its own before.
C34_GracefulThenForced ==
    /\ [](/\ signals \in {<<>>, <<"terminate">>, <<"terminate", "kill">>}
          /\ gsignals \in {<<>>, <<"terminate">>, <<"terminate", "kill">>}
          /\ Len(signals) = 2 <=> proc = "killed"
          /\ Len(gsignals) = 2 <=> gproc = "killed"
          /\ proc = "terminated" => signals = <<"terminate">>
          /\ gproc = "terminated" => gsignals = <<"terminate">>)
    /\ [][/\ signals' # signals =>
                /\ signals = <<>>
                /\ pfHandle
                /\ proc' = "killed" => proc = "running"
                /\ proc # "running" => (proc' = proc /\ signals' = <<"terminate">>)
          /\ gsignals' # gsignals =>
                /\ gsignals = <<>>
                /\ gproc' = "killed" => gproc = "running"
                /\ gproc # "running" => (gproc' = gproc /\ gsignals' = <<"terminate">>)
         ]_vars

\* C34 witness: the gate's process exited within the grace period and was
\* not killed; the monitor's did not and was.
C34_Witness ==
    /\ gsignals = <<"terminate">>
    /\ gproc = "terminated"
    /\ signals = <<"terminate", "kill">>
    /\ proc = "killed"
    /\ mpc = "exited"

\* C35: a failure of the advisory webhook check is logged and the gate goes
\* on; when the wait for the webhook jobs exits non-zero the log does not
\* say that the webhook jobs are complete.
C35_WebhookFailureIsLogged ==
    (Len(gwebhook) = 2 /\ gwebhook[2] # "ok") =>
        /\ gpc # "webhooks"
        /\ gexit = 1 => gfailed # "none"
        /\ "Webhook jobs COMPLETE" \notin glog
        /\ "Webhook check had issues (non-fatal)" \in glog

\* C36: the number of failed probes never exceeds --retries, and when every
\* external call returns or hits its timeout the gate ends, with exit code
\* 0 or 1.
C36_GateTerminates ==
    /\ [](gattempt <= genv.retries)
    /\ [](gpc = "done" => gexit \in {0, 1})
    /\ <>(gpc = "done" /\ gexit \in {0, 1})

\* C36 witness: a gate that ran through every wait, retried the probe once
\* and ended with exit code 0 after killing a port-forward that did not go.
C36_Witness ==
    /\ gpc = "done"
    /\ gexit = 0
    /\ genv.retries = 2
    /\ gsignals = <<"terminate", "kill">>
    /\ gwebhook = <<"nonzero", "nonzero">>

\* load_test.main died in a warm-up.
LoadAbortedInWarmup == \E h \in HostSet : WarmupFailedFor(h)

\* monitor_resources.main has ended without a single sample: Prometheus was
\* never found reachable, or the sampling collected nothing.
MonitorEndedWithoutSample == mpc = "exited" /\ samples = <<>>

\* C37: a load_test invocation that aborts in warm-up, and a
\* monitor_resources invocation that ends without reachability or without
\* a sample, end with a non-zero exit code, have written no report file and
\* have left the state file as it was.
C37_EarlyFailureWritesNothing ==
    /\ LoadAbortedInWarmup =>
          /\ lexit = 1
          /\ artifacts = {}
          /\ stateFile = stBase
          /\ stHist = <<>>
    /\ MonitorEndedWithoutSample =>
          /\ mexit # 0
          /\ martifacts = {}
          /\ stateFile = stBase
          /\ stHist = <<>>

\* C37 witness: the monitor reached Prometheus, every sample came back
\* empty, and it ended with 1 and nothing written over a state file that
\* held a load_test entry.
C37_Witness ==
    /\ MonitorEndedWithoutSample
    /\ probeOk
    /\ mqueries # <<>>
    /\ mexit = 1
    /\ martifacts = {}
    /\ stateFile = Dumps([k \in {"kubeconfig", "load_test"} |-> 1])

\* C37 second case reached: the warm-up of the second host failed.
C37_WitnessLoad ==
    /\ WarmupFailedFor(HOSTS[2])
    /\ artifacts = {}

(***************************************************************************)
(* Claims about the order of the percentiles                               *)
(***************************************************************************)

RatLeq(a, b) == a.num * b.den <= b.num * a.den

MetricsComputed == ppc = "computed"

\* C38: for every non-empty latency list the metrics compute_metrics returns
\* satisfy min <= p50 <= p90 <= p95 <= p99 <= max, and percentile of the list
\* is non-decreasing in pct: no smaller pct yields a larger value than the one
\* returned.
C38_PercentilesAreOrdered ==
    /\ (MetricsComputed /\ pin # <<>>) =>
          /\ RatLeq(Rat(MinSeq(pin), 1), pmet.p50)
          /\ RatLeq(pmet.p50, pmet.p90)
          /\ RatLeq(pmet.p90, pmet.p95)
          /\ RatLeq(pmet.p95, pmet.p99)
          /\ RatLeq(pmet.p99, pmet.max)
    /\ (PercentileReturned /\ pin # <<>>) =>
          \A q \in 0..ppct : RatLeq(percentile(pin, q), pout)
====
